---- MODULE Spec2Model ----
(***************************************************************************)
(* Polycube generator: the shape model (polycube.rs), the rotational       *)
(* canonicalization (rotation.rs) and the parallel growth with a shared    *)
(* signature set (generator.rs).                                           *)
(*                                                                         *)
(* A position is a tuple <<x, y, z>>, a polycube is the sequence of its    *)
(* positions (the Vec<Pos> `cubes`), a rotation is a 3x3 tuple of rows.    *)
(***************************************************************************)
EXTENDS Integers, Naturals, Sequences, FiniteSets, TLC

----------------------------------------------------------------------------
(* Bounds of the model.                                                    *)

\* pool size of the parallel iterator: tasks that may be in progress at once
NumThreads == 2
\* number of orders in which a HashSet may be iterated (see IterationOrder)
HashOrders == 2
\* sizes explored by the parallel specification
ParSizes == 0..4
\* largest size explored by the sequential specification
MaxSeqN == 5
\* shapes of the canonicalization specification: up to MaxCells cells
MaxCells == 4
\* the largest size asked of the public counters of safe_counter.rs
MaxCountN == 14
\* the largest target size of the breadth-first counter
MaxFixedN == 5
\* the largest size of the results saved to the cache and loaded again
MaxCacheN == 4
\* the largest target size of the parallel counter
MaxParN == 5

----------------------------------------------------------------------------
(* Evaluation helper: F applied to the value of v, computed once (a local  *)
(* `let` binding of the code; a LET definition is re-evaluated at each use).*)

Let(v, F(_)) == CHOOSE r \in { F(x) : x \in {v} } : TRUE

----------------------------------------------------------------------------
(* polycube.rs: positions and shapes.                                      *)

\* i8 arithmetic (wrapping, as in a release build)
\* mutant: the coordinates are three bits wide
W8_three_bits(v) == ((v + 4) % 8) - 4

\* a value as a signed 8-bit integer (two's complement, wrapping)
W8(v) == ((v + 128) % 256) - 128

Pos(x, y, z) == <<W8(x), W8(y), W8(z)>>

\* mutant: the neighbour above on y is taken one cell too far on x
adjacent_positions_diagonal(p) ==
    << Pos(p[1] + 1, p[2], p[3]),
       Pos(p[1] - 1, p[2], p[3]),
       Pos(p[1] + 1, p[2] + 1, p[3]),
       Pos(p[1], p[2] - 1, p[3]),
       Pos(p[1], p[2], p[3] + 1),
       Pos(p[1], p[2], p[3] - 1) >>

adjacent_positions(p) ==
    << Pos(p[1] + 1, p[2], p[3]),
       Pos(p[1] - 1, p[2], p[3]),
       Pos(p[1], p[2] + 1, p[3]),
       Pos(p[1], p[2] - 1, p[3]),
       Pos(p[1], p[2], p[3] + 1),
       Pos(p[1], p[2], p[3] - 1) >>

Range(s) == { s[i] : i \in 1..Len(s) }

\* mutant: the occupied positions are not left out
get_expansion_positions_occupied(cubes) ==
    UNION { Range(adjacent_positions(c)) : c \in Range(cubes) }

get_expansion_positions(cubes) ==
    { adj \in UNION { Range(adjacent_positions(c)) : c \in Range(cubes) } :
        adj \notin Range(cubes) }

expand(cubes, position) == Append(cubes, position)

MinOf(S) == CHOOSE m \in S : \A v \in S : m <= v

\* mutant: z is shifted by the minimum of y
normalize_wrong_axis(cubes) ==
    IF Len(cubes) = 0 THEN cubes
    ELSE Let(<< MinOf({ p[1] : p \in Range(cubes) }),
                MinOf({ p[2] : p \in Range(cubes) }) >>,
             LAMBDA min :
                [ i \in 1..Len(cubes) |->
                    Pos(cubes[i][1] - min[1], cubes[i][2] - min[2],
                        cubes[i][3] - min[2]) ] \o << >>)

normalize(cubes) ==
    IF Len(cubes) = 0 THEN cubes
    ELSE Let(<< MinOf({ p[1] : p \in Range(cubes) }),
                MinOf({ p[2] : p \in Range(cubes) }),
                MinOf({ p[3] : p \in Range(cubes) }) >>,
             LAMBDA min :
                [ i \in 1..Len(cubes) |->
                    Pos(cubes[i][1] - min[1], cubes[i][2] - min[2],
                        cubes[i][3] - min[3]) ] \o << >>)

\* one pass of `for adj in current.adjacent_positions()`: the neighbours
\* k..6 of `current`, each pushed when in the shape and not yet visited;
\* qv is << queue, visited >>
RECURSIVE VisitAdjacent(_, _, _, _)
VisitAdjacent(adjs, k, qv, positions) ==
    IF k > Len(adjs) THEN qv
    ELSE IF adjs[k] \in positions /\ adjs[k] \notin qv[2]
         THEN Let(<< Append(qv[1], adjs[k]), qv[2] \cup {adjs[k]} >>,
                  LAMBDA next : VisitAdjacent(adjs, k + 1, next, positions))
         ELSE VisitAdjacent(adjs, k + 1, qv, positions)

\* the traversal of is_face_connected: `queue` is the Vec used as a stack,
\* `visited` the set of positions reached so far; qv is << queue, visited >>
RECURSIVE Traverse(_, _)
Traverse(qv, positions) ==
    IF Len(qv[1]) = 0 THEN qv[2]
    ELSE Let(VisitAdjacent(adjacent_positions(qv[1][Len(qv[1])]), 1,
                           << SubSeq(qv[1], 1, Len(qv[1]) - 1), qv[2] >>,
                           positions),
             LAMBDA next : Traverse(next, positions))

is_face_connected(cubes) ==
    IF Len(cubes) <= 1 THEN TRUE
    ELSE Cardinality(Traverse(<< <<cubes[1]>>, {cubes[1]} >>, Range(cubes)))
            = Len(cubes)

unit_cube == << Pos(0, 0, 0) >>

domino == << Pos(0, 0, 0), Pos(1, 0, 0) >>

----------------------------------------------------------------------------
(* rotation.rs: the 24 rotations and the canonical form.                   *)

apply_rotation(cubes, rotation) ==
    [ i \in 1..Len(cubes) |->
        LET p == cubes[i]
        IN  Pos(rotation[1][1] * p[1] + rotation[1][2] * p[2] + rotation[1][3] * p[3],
                rotation[2][1] * p[1] + rotation[2][2] * p[2] + rotation[2][3] * p[3],
                rotation[3][1] * p[1] + rotation[3][2] * p[2] + rotation[3][3] * p[3]) ]
    \o << >>

\* mutant: a sign slip in the last matrix
generate_rotation_matrices_sign_slip ==
    << << <<1, 0, 0>>, <<0, 1, 0>>, <<0, 0, 1>> >>,
       << <<1, 0, 0>>, <<0, 0, -1>>, <<0, 1, 0>> >>,
       << <<1, 0, 0>>, <<0, -1, 0>>, <<0, 0, -1>> >>,
       << <<1, 0, 0>>, <<0, 0, 1>>, <<0, -1, 0>> >>,
       << <<-1, 0, 0>>, <<0, 1, 0>>, <<0, 0, -1>> >>,
       << <<-1, 0, 0>>, <<0, 0, 1>>, <<0, 1, 0>> >>,
       << <<-1, 0, 0>>, <<0, -1, 0>>, <<0, 0, 1>> >>,
       << <<-1, 0, 0>>, <<0, 0, -1>>, <<0, -1, 0>> >>,
       << <<0, 1, 0>>, <<-1, 0, 0>>, <<0, 0, 1>> >>,
       << <<0, 1, 0>>, <<0, 0, -1>>, <<-1, 0, 0>> >>,
       << <<0, 1, 0>>, <<1, 0, 0>>, <<0, 0, -1>> >>,
       << <<0, 1, 0>>, <<0, 0, 1>>, <<1, 0, 0>> >>,
       << <<0, -1, 0>>, <<1, 0, 0>>, <<0, 0, 1>> >>,
       << <<0, -1, 0>>, <<0, 0, -1>>, <<1, 0, 0>> >>,
       << <<0, -1, 0>>, <<-1, 0, 0>>, <<0, 0, -1>> >>,
       << <<0, -1, 0>>, <<0, 0, 1>>, <<-1, 0, 0>> >>,
       << <<0, 0, 1>>, <<0, 1, 0>>, <<-1, 0, 0>> >>,
       << <<0, 0, 1>>, <<1, 0, 0>>, <<0, 1, 0>> >>,
       << <<0, 0, 1>>, <<0, -1, 0>>, <<1, 0, 0>> >>,
       << <<0, 0, 1>>, <<-1, 0, 0>>, <<0, -1, 0>> >>,
       << <<0, 0, -1>>, <<0, 1, 0>>, <<1, 0, 0>> >>,
       << <<0, 0, -1>>, <<-1, 0, 0>>, <<0, 1, 0>> >>,
       << <<0, 0, -1>>, <<0, -1, 0>>, <<-1, 0, 0>> >>,
       << <<0, 0, -1>>, <<1, 0, 0>>, <<0, 1, 0>> >> >>

generate_rotation_matrices ==
    << \* +X face rotations
       << <<1, 0, 0>>, <<0, 1, 0>>, <<0, 0, 1>> >>,
       << <<1, 0, 0>>, <<0, 0, -1>>, <<0, 1, 0>> >>,
       << <<1, 0, 0>>, <<0, -1, 0>>, <<0, 0, -1>> >>,
       << <<1, 0, 0>>, <<0, 0, 1>>, <<0, -1, 0>> >>,
       \* -X face rotations
       << <<-1, 0, 0>>, <<0, 1, 0>>, <<0, 0, -1>> >>,
       << <<-1, 0, 0>>, <<0, 0, 1>>, <<0, 1, 0>> >>,
       << <<-1, 0, 0>>, <<0, -1, 0>>, <<0, 0, 1>> >>,
       << <<-1, 0, 0>>, <<0, 0, -1>>, <<0, -1, 0>> >>,
       \* +Y face rotations
       << <<0, 1, 0>>, <<-1, 0, 0>>, <<0, 0, 1>> >>,
       << <<0, 1, 0>>, <<0, 0, -1>>, <<-1, 0, 0>> >>,
       << <<0, 1, 0>>, <<1, 0, 0>>, <<0, 0, -1>> >>,
       << <<0, 1, 0>>, <<0, 0, 1>>, <<1, 0, 0>> >>,
       \* -Y face rotations
       << <<0, -1, 0>>, <<1, 0, 0>>, <<0, 0, 1>> >>,
       << <<0, -1, 0>>, <<0, 0, -1>>, <<1, 0, 0>> >>,
       << <<0, -1, 0>>, <<-1, 0, 0>>, <<0, 0, -1>> >>,
       << <<0, -1, 0>>, <<0, 0, 1>>, <<-1, 0, 0>> >>,
       \* +Z face rotations
       << <<0, 0, 1>>, <<0, 1, 0>>, <<-1, 0, 0>> >>,
       << <<0, 0, 1>>, <<1, 0, 0>>, <<0, 1, 0>> >>,
       << <<0, 0, 1>>, <<0, -1, 0>>, <<1, 0, 0>> >>,
       << <<0, 0, 1>>, <<-1, 0, 0>>, <<0, -1, 0>> >>,
       \* -Z face rotations
       << <<0, 0, -1>>, <<0, 1, 0>>, <<1, 0, 0>> >>,
       << <<0, 0, -1>>, <<-1, 0, 0>>, <<0, 1, 0>> >>,
       << <<0, 0, -1>>, <<0, -1, 0>>, <<-1, 0, 0>> >>,
       << <<0, 0, -1>>, <<1, 0, 0>>, <<0, -1, 0>> >> >>

\* mutant: the rotated shape is pushed without normalize()
all_rotations_not_normalized(cubes) ==
    [ k \in 1..Len(generate_rotation_matrices) |->
        apply_rotation(cubes, generate_rotation_matrices[k]) ]

all_rotations(cubes) ==
    [ k \in 1..Len(generate_rotation_matrices) |->
        normalize(apply_rotation(cubes, generate_rotation_matrices[k])) ]

\* the comparator of positions.sort_by: x, then y, then z
PosLess(a, b) ==
    \/ a[1] < b[1]
    \/ a[1] = b[1] /\ a[2] < b[2]
    \/ a[1] = b[1] /\ a[2] = b[2] /\ a[3] < b[3]

\* positions.sort_by(...): a stable sort (by insertion)
RECURSIVE InsertSorted(_, _)
InsertSorted(s, p) ==
    IF Len(s) = 0 THEN <<p>>
    ELSE IF PosLess(p, s[Len(s)])
         THEN Append(InsertSorted(SubSeq(s, 1, Len(s) - 1), p), s[Len(s)])
         ELSE Append(s, p)

\* mutant: the positions are left in the order of the Vec
SortPositions_unsorted(s) == s

RECURSIVE SortPositions(_)
SortPositions(s) ==
    IF Len(s) = 0 THEN << >>
    ELSE Let(SortPositions(SubSeq(s, 1, Len(s) - 1)),
             LAMBDA sorted : InsertSorted(sorted, s[Len(s)]))

RECURSIVE LexFrom(_, _, _, _)
LexFrom(a, b, i, len) ==
    IF i > len THEN Len(a) < Len(b)
    ELSE IF a[i][1] < b[i][1] THEN TRUE
    ELSE IF a[i][1] > b[i][1] THEN FALSE
    ELSE IF a[i][2] < b[i][2] THEN TRUE
    ELSE IF a[i][2] > b[i][2] THEN FALSE
    ELSE IF a[i][3] < b[i][3] THEN TRUE
    ELSE IF a[i][3] > b[i][3] THEN FALSE
    ELSE LexFrom(a, b, i + 1, len)

\* mutant: only the first position of each sequence is compared
lexicographically_smaller_first_only(a, b) ==
    LexFrom(a, b, 1, IF Len(a) < 1 \/ Len(b) < 1 THEN 0 ELSE 1)

lexicographically_smaller(a, b) ==
    LexFrom(a, b, 1, IF Len(a) < Len(b) THEN Len(a) ELSE Len(b))

\* the loop of get_canonical_hash over the sorted rotations k..24: `best`
\* is the index of `smallest` (0 for None)
RECURSIVE SmallestFrom(_, _, _)
SmallestFrom(sorted, k, best) ==
    IF k > Len(sorted) THEN best
    ELSE IF best = 0 \/ lexicographically_smaller(sorted[k], sorted[best])
         THEN SmallestFrom(sorted, k + 1, k)
         ELSE SmallestFrom(sorted, k + 1, best)

\* every rotation with its positions sorted
sorted_rotations(cubes) ==
    Let(all_rotations(cubes) \o << >>,
        LAMBDA rotations :
           [ k \in 1..Len(rotations) |-> SortPositions(rotations[k]) ] \o << >>)

\* mutant: the loop starts at the second rotation
canonical_positions_skip_first(cubes) ==
    Let(sorted_rotations(cubes),
        LAMBDA sorted : sorted[SmallestFrom(sorted, 2, 0)])

\* `smallest` at the end of the loop
canonical_positions(cubes) ==
    Let(sorted_rotations(cubes),
        LAMBDA sorted : sorted[SmallestFrom(sorted, 1, 0)])

\* FxHasher over the canonical positions.  The 64-bit hash is taken as
\* collision-free: the value stands for the hash of exactly this sequence
\* of (length, positions).
FxHash(positions) == <<"fx", Len(positions), positions>>

get_canonical_hash(cubes) == FxHash(canonical_positions(cubes))

\* generator.rs calls normalized.get_canonical_form(); its signature is the
\* hash of the canonical representative
get_canonical_form(cubes) == get_canonical_hash(cubes)

----------------------------------------------------------------------------
(* generator.rs: the cache artifact (bincode inside a zstd frame).         *)

\* a u64 in little-endian bytes, as bincode writes a length
U64Bytes(v) ==
    << v % 256, (v \div 256) % 256, 0, 0, 0, 0, 0, 0 >>

\* an i8 as its byte
I8Byte(v) == (v + 256) % 256

ByteI8(b) == IF b >= 128 THEN b - 256 ELSE b

RECURSIVE Flatten(_)
Flatten(ss) ==
    IF Len(ss) = 0 THEN << >> ELSE ss[1] \o Flatten(Tail(ss))

SerializePolycube(cubes) ==
    U64Bytes(Len(cubes)) \o
    Flatten([ i \in 1..Len(cubes) |->
                << I8Byte(cubes[i][1]), I8Byte(cubes[i][2]), I8Byte(cubes[i][3]) >> ])

\* bincode::serialize(polycubes)
Serialize(polycubes) ==
    U64Bytes(Len(polycubes)) \o
    Flatten([ i \in 1..Len(polycubes) |-> SerializePolycube(polycubes[i]) ])

\* the zstd frame: the four magic bytes, then the content
ZstdMagic == << 40, 181, 47, 253 >>

Compress(bytes) == ZstdMagic \o bytes

\* <<TRUE, content>> or <<FALSE>> when the frame is not a zstd frame
Decompress(frame) ==
    IF Len(frame) >= 4 /\ SubSeq(frame, 1, 4) = ZstdMagic
    THEN <<TRUE, SubSeq(frame, 5, Len(frame))>>
    ELSE <<FALSE>>

\* reads a u64 at offset `at` (1-based); <<FALSE>> on a short input
ReadU64(bytes, at) ==
    IF at + 7 > Len(bytes) THEN <<FALSE>>
    ELSE IF \E j \in 2..7 : bytes[at + j] # 0 THEN <<FALSE>>
    ELSE <<TRUE, bytes[at] + 256 * bytes[at + 1]>>

\* mutant: a short input yields the positions that are there
ReadCubes_short(bytes, at, count) ==
    Let(IF at + 3 * count - 1 > Len(bytes)
        THEN IF Len(bytes) < at THEN 0 ELSE (Len(bytes) + 1 - at) \div 3
        ELSE count,
        LAMBDA available :
          <<TRUE,
            [ i \in 1..available |->
                << ByteI8(bytes[at + 3 * (i - 1)]),
                   ByteI8(bytes[at + 3 * (i - 1) + 1]),
                   ByteI8(bytes[at + 3 * (i - 1) + 2]) >> ] \o << >>,
            at + 3 * available>>)

\* reads `count` positions from offset `at`: <<TRUE, cubes, next offset>>
ReadCubes(bytes, at, count) ==
    IF at + 3 * count - 1 > Len(bytes) THEN <<FALSE>>
    ELSE <<TRUE,
           [ i \in 1..count |->
               << ByteI8(bytes[at + 3 * (i - 1)]),
                  ByteI8(bytes[at + 3 * (i - 1) + 1]),
                  ByteI8(bytes[at + 3 * (i - 1) + 2]) >> ] \o << >>,
           at + 3 * count>>

\* reads one polycube (its length, then its positions) from offset `at` and
\* appends it to `acc`: <<TRUE, acc, next offset>> or <<FALSE>>
ReadPolycube(bytes, at, acc) ==
    Let(ReadU64(bytes, at), LAMBDA len :
       IF ~len[1] THEN <<FALSE>>
       ELSE Let(ReadCubes(bytes, at + 8, len[2]), LAMBDA cubes :
              IF ~cubes[1] THEN <<FALSE>>
              ELSE <<TRUE, Append(acc, cubes[2]), cubes[3]>>))

\* reads `count` polycubes from offset `at`, appending them to `acc`
RECURSIVE ReadPolycubes(_, _, _, _)
ReadPolycubes(bytes, at, count, acc) ==
    IF count = 0 THEN <<TRUE, acc>>
    ELSE Let(ReadPolycube(bytes, at, acc), LAMBDA next :
           IF ~next[1] THEN <<FALSE>>
           ELSE ReadPolycubes(bytes, next[3], count - 1, next[2]))

\* bincode::deserialize(&decompressed): the whole Vec or an error
Deserialize(bytes) ==
    Let(ReadU64(bytes, 1), LAMBDA len :
       IF ~len[1] THEN <<FALSE>>
       ELSE ReadPolycubes(bytes, 9, len[2], << >>))

\* an artifact of the cache directory: absent, or a file with its bytes;
\* a file that is not readable exists but cannot be opened or read
NoFile == [ exists |-> FALSE, readable |-> FALSE, bytes |-> << >> ]

FileOf(bytes) == [ exists |-> TRUE, readable |-> TRUE, bytes |-> bytes ]

\* save_to_cache(polycubes, path) when every I/O step succeeds
save_to_cache(polycubes) == FileOf(Compress(Serialize(polycubes)))

\* load_from_cache(path): <<TRUE, polycubes>> is Ok, <<FALSE>> is Err
load_from_cache(file) ==
    IF ~file.exists \/ ~file.readable THEN <<FALSE>>
    ELSE Let(Decompress(file.bytes), LAMBDA decompressed :
           IF ~decompressed[1] THEN <<FALSE>>
           ELSE Deserialize(decompressed[2]))

\* mutant: the entry of size 4 is mistyped
get_known_count_typo(size) ==
    CASE size = 1 -> <<TRUE, 1>>
      [] size = 2 -> <<TRUE, 1>>
      [] size = 3 -> <<TRUE, 2>>
      [] size = 4 -> <<TRUE, 7>>
      [] size = 5 -> <<TRUE, 29>>
      [] size = 6 -> <<TRUE, 166>>
      [] size = 7 -> <<TRUE, 1023>>
      [] size = 8 -> <<TRUE, 6922>>
      [] size = 9 -> <<TRUE, 48311>>
      [] size = 10 -> <<TRUE, 346543>>
      [] size = 11 -> <<TRUE, 2522522>>
      [] size = 12 -> <<TRUE, 18598427>>
      [] size = 13 -> <<TRUE, 139333147>>
      [] size = 14 -> <<TRUE, 1056657611>>
      \* beyond 32 bits: the decimal numeral
      [] size = 15 -> <<TRUE, "8107839447">>
      [] size = 16 -> <<TRUE, "62709211271">>
      [] size = 17 -> <<TRUE, "489997729602">>
      [] size = 18 -> <<TRUE, "3847265309118">>
      [] OTHER -> <<FALSE>>

get_known_count(size) ==
    CASE size = 1 -> <<TRUE, 1>>
      [] size = 2 -> <<TRUE, 1>>
      [] size = 3 -> <<TRUE, 2>>
      [] size = 4 -> <<TRUE, 8>>
      [] size = 5 -> <<TRUE, 29>>
      [] size = 6 -> <<TRUE, 166>>
      [] size = 7 -> <<TRUE, 1023>>
      [] size = 8 -> <<TRUE, 6922>>
      [] size = 9 -> <<TRUE, 48311>>
      [] size = 10 -> <<TRUE, 346543>>
      [] size = 11 -> <<TRUE, 2522522>>
      [] size = 12 -> <<TRUE, 18598427>>
      [] size = 13 -> <<TRUE, 139333147>>
      [] size = 14 -> <<TRUE, 1056657611>>
      \* beyond 32 bits: the decimal numeral
      [] size = 15 -> <<TRUE, "8107839447">>
      [] size = 16 -> <<TRUE, "62709211271">>
      [] size = 17 -> <<TRUE, "489997729602">>
      [] size = 18 -> <<TRUE, "3847265309118">>
      [] OTHER -> <<FALSE>>

----------------------------------------------------------------------------
(* safe_counter.rs: the fast counter of fixed polycubes.                   *)

DIRECTIONS ==
    << <<1, 0, 0>>, <<-1, 0, 0>>, <<0, 1, 0>>, <<0, -1, 0>>, <<0, 0, 1>>, <<0, 0, -1>> >>

\* (x + dx, y + dy, z + dz) for the six directions
Neighbours(p) ==
    [ k \in 1..Len(DIRECTIONS) |->
        Pos(p[1] + DIRECTIONS[k][1], p[2] + DIRECTIONS[k][2], p[3] + DIRECTIONS[k][3]) ]

\* mutant: the positions are sorted but not translated
canonicalize_in_place_no_translation(positions) ==
    IF Len(positions) = 0 THEN positions
    ELSE SortPositions(positions)

\* translate to the origin, then sort_unstable() (tuples in x, y, z order;
\* the positions of a shape are distinct, so stability does not matter)
canonicalize_in_place(positions) ==
    IF Len(positions) = 0 THEN positions
    ELSE Let(<< MinOf({ p[1] : p \in Range(positions) }),
                MinOf({ p[2] : p \in Range(positions) }),
                MinOf({ p[3] : p \in Range(positions) }) >>,
             LAMBDA min :
                SortPositions([ i \in 1..Len(positions) |->
                    Pos(positions[i][1] - min[1], positions[i][2] - min[2],
                        positions[i][3] - min[3]) ] \o << >>))

\* DefaultHasher over the slice; without collisions, a tag of the slice
hash_polycube(positions) == <<"sip", positions>>

\* mutant: the cell diagonal to a cell of the shape is offered as well
get_valid_extensions_diagonal(positions) ==
    { new_pos \in UNION { Range(Neighbours(p)) \cup { Pos(p[1] + 1, p[2] + 1, p[3]) } :
                            p \in Range(positions) } :
        new_pos \notin Range(positions) }

\* the free cells next to a cell of the shape (a set: the order of the
\* returned vector is that of an FxHashSet)
get_valid_extensions(positions) ==
    { new_pos \in UNION { Range(Neighbours(p)) : p \in Range(positions) } :
        new_pos \notin Range(positions) }

\* the traversal of is_connected: `queue` is popped at the front; qv is
\* << queue, visited >>
RECURSIVE TraverseFront(_, _)
TraverseFront(qv, occupied) ==
    IF Len(qv[1]) = 0 THEN qv[2]
    ELSE Let(VisitAdjacent(Neighbours(Head(qv[1])), 1, << Tail(qv[1]), qv[2] >>,
                           occupied),
             LAMBDA next : TraverseFront(next, occupied))

is_connected(positions) ==
    IF Len(positions) <= 1 THEN TRUE
    ELSE Cardinality(TraverseFront(<< <<positions[1]>>, {positions[1]} >>,
                                   Range(positions)))
            = Len(positions)

----------------------------------------------------------------------------
(* safe_counter.rs: the public counters.  `generated` is the length of the *)
(* collection generate_polycubes(n, true) returns; `improved` and          *)
(* `parallel` are the values count_fixed_polycubes_improved(n) and         *)
(* count_fixed_polycubes_parallel(n) return; `threads` is config.threads.  *)

\* get_known_count(n as u8).unwrap_or_else(|| generate_polycubes(..).len())
KnownOrGenerated(cn, generated) ==
    IF get_known_count(cn % 256)[1] THEN get_known_count(cn % 256)[2]
    ELSE generated

count_fixed_polycubes(cn, threads, generated, improved, parallel) ==
    IF cn <= 2 THEN 1
    ELSE IF cn <= 7 THEN KnownOrGenerated(cn, generated)
    ELSE IF threads <= 1 THEN improved
    ELSE parallel

\* mutant: the literal of size 12 is left out
count_free_polycubes_no_literal(cn, fixed_count) ==
    IF cn <= 2 THEN 1
    ELSE CASE cn = 3 -> 2
           [] cn = 4 -> 8
           [] cn = 5 -> 29
           [] cn = 6 -> 166
           [] cn = 7 -> 1023
           [] cn = 8 -> 6922
           [] cn = 9 -> 48311
           [] cn = 10 -> 346543
           [] cn = 11 -> 2522522
           [] OTHER -> fixed_count \div 24

\* fixed_count is count_fixed_polycubes(n, Some(config)), which the arm `_`
\* computes first
count_free_polycubes(cn, fixed_count) ==
    IF cn <= 2 THEN 1
    ELSE CASE cn = 3 -> 2
           [] cn = 4 -> 8
           [] cn = 5 -> 29
           [] cn = 6 -> 166
           [] cn = 7 -> 1023
           [] cn = 8 -> 6922
           [] cn = 9 -> 48311
           [] cn = 10 -> 346543
           [] cn = 11 -> 2522522
           [] OTHER -> IF cn = 12 THEN 18598427 ELSE fixed_count \div 24

\* mutant: the tabulated value is returned whenever there is one
count_polycubes_known_first(cn, use_symmetry, threads, generated, improved, parallel) ==
    IF get_known_count(cn % 256)[1] /\ (cn <= 14 \/ ~use_symmetry)
    THEN get_known_count(cn % 256)[2]
    ELSE IF use_symmetry
         THEN count_free_polycubes(cn, count_fixed_polycubes(cn, threads, generated, improved, parallel))
         ELSE count_fixed_polycubes(cn, threads, generated, improved, parallel)

count_polycubes(cn, use_symmetry, threads, generated, improved, parallel) ==
    IF cn <= 7 /\ ~use_symmetry THEN KnownOrGenerated(cn, generated)
    ELSE IF use_symmetry
         THEN count_free_polycubes(cn,
                 count_fixed_polycubes(cn, threads, generated, improved, parallel))
         ELSE count_fixed_polycubes(cn, threads, generated, improved, parallel)

----------------------------------------------------------------------------
(* generator.rs: generate_polycubes as a state machine.                    *)

VARIABLES
    n,              \* the size asked of the outermost call
    use_cache,      \* its flag, passed unchanged to every recursive call
    cache,          \* the cache directory: size -> artifact cubes_<size>.zst
    cache_log,      \* the accesses made to the cache directory so far
    pc,             \* position of the current call: "call", "expand", "done"
    size,           \* the n of the call frame being executed
    base_cubes,     \* base_cubes of the frame being expanded
    tasks,          \* one task of the parallel iterator per base shape
    unique_forms,   \* the shared set of signatures
    lock,           \* holder of the mutex of unique_forms (0: free)
    progress,       \* the progress counter
    result,         \* the value returned by the outermost call
    shape,          \* canonicalization specification: the shape at hand
    other,          \* ... the shape it is compared with
    op,             \* ... the operation that produced `shape` ("none" at first)
    matrix,         \* ... the rotation matrix it applied (<< >> if none)
    hash,           \* ... get_canonical_hash() of `shape`
    other_hash,     \* ... get_canonical_hash() of `other`
    call,           \* safe_counter.rs: the function called and its arguments
    engine,         \* ... what the functions it calls return to it
    queue,          \* count_fixed_polycubes_improved: the queue of (positions, size)
    visited_hashes, \* ... the hashes of the shapes seen so far
    count,          \* ... the number of shapes of the target size found
    dropped,        \* ... the candidates `if !is_connected` has skipped
    starting_polycubes, \* count_fixed_polycubes_parallel: the seeds
    par_tasks,      \* ... one task of the parallel iterator per seed
    counter,        \* ... the shared total
    counter_lock,   \* ... holder of the mutex of counter (0: free)
    completed,      \* ... the number of tasks reported as completed
    progress_lock,  \* ... holder of the mutex of the progress count (0: free)
    returned_count, \* ... << the value it returned >> (<< >> until it returns)
    loaded          \* what load_from_cache has returned (<< >> until it is called)

vars == << n, use_cache, cache, cache_log, pc, size, base_cubes, tasks,
           unique_forms, lock, progress, result, shape, other, op, matrix, hash, other_hash,
           call, engine, queue, visited_hashes, count, dropped, starting_polycubes,
           par_tasks, counter, counter_lock, completed, progress_lock,
           returned_count, loaded >>

genVars == << n, use_cache, cache, cache_log, pc, size, base_cubes, tasks,
              unique_forms, lock, progress, result >>

canonVars == << shape, other, op, matrix, hash, other_hash >>

fixedVars == << queue, visited_hashes, count, dropped >>

parVars == << starting_polycubes, par_tasks, counter, counter_lock, completed,
             progress_lock >>

countVars == << call, engine, fixedVars, parVars, returned_count >>

\* the smallest position of a non-empty set, in (x, y, z) order
MinPos(S) == CHOOSE p \in S : \A q \in S : p = q \/ PosLess(p, q)

\* the positions of S in ascending (x, y, z) order
RECURSIVE Ascending(_)
Ascending(S) ==
    IF S = {} THEN << >>
    ELSE << MinPos(S) >> \o Ascending(S \ {MinPos(S)})

Reverse(s) == [ i \in 1..Len(s) |-> s[Len(s) + 1 - i] ]

Rotate(s, r) ==
    IF Len(s) = 0 THEN s
    ELSE SubSeq(s, (r % Len(s)) + 1, Len(s)) \o SubSeq(s, 1, r % Len(s))

\* the order in which `for position in positions` visits a HashSet is not
\* specified; order number o is the ascending (o even) or descending (o
\* odd) order, started o \div 2 elements later
IterationOrder(S, o) ==
    IF o % 2 = 0 THEN Rotate(Ascending(S), o \div 2)
    ELSE Rotate(Reverse(Ascending(S)), o \div 2)

NewTask ==
    [ st |-> "todo", pc |-> "pick", positions |-> << >>, expansions |-> << >>,
      normalized |-> << >>, canonical |-> << >>, local_polycubes |-> << >> ]

\* mutant: the expanded shape is kept without normalize()
Expansion_not_normalized(base_cube, position) ==
    Let(expand(base_cube, position), LAMBDA expanded_shape :
       IF ~is_face_connected(expanded_shape)
       THEN [ connected |-> FALSE, normalized |-> << >>, canonical |-> << >> ]
       ELSE [ connected  |-> TRUE,
              normalized |-> expanded_shape,
              canonical  |-> get_canonical_form(expanded_shape) ])

\* what one iteration of the loop computes for a position before it takes
\* the lock: a pure function of the base shape and the position
Expansion(base_cube, position) ==
    Let(expand(base_cube, position), LAMBDA expanded_shape :
       IF ~is_face_connected(expanded_shape)
       THEN [ connected |-> FALSE, normalized |-> << >>, canonical |-> << >> ]
       ELSE Let(normalize(expanded_shape), LAMBDA normalized :
              [ connected  |-> TRUE,
                normalized |-> normalized,
                canonical  |-> get_canonical_form(normalized) ]))

\* the frame of size `sz` returns `polycubes`: the outermost call is done,
\* any other frame hands them to its caller as base_cubes (generator.rs:37)
\* and the caller starts its parallel iterator
Return(sz, polycubes) ==
    IF sz = n
    THEN /\ pc' = "done"
         /\ result' = polycubes
         /\ UNCHANGED << size, base_cubes, tasks, unique_forms, lock, progress >>
    ELSE /\ pc' = "expand"
         /\ size' = sz + 1
         /\ base_cubes' = polycubes
         /\ tasks' = [ i \in 1..Len(polycubes) |-> NewTask ]
         /\ unique_forms' = {}
         /\ lock' = 0
         /\ progress' = 0
         /\ UNCHANGED result

\* mutant: the cache file is looked for before the base cases
BaseCase_after_cache_check ==
    /\ pc = "call"
    /\ size <= 2
    /\ cache_log' = IF use_cache THEN cache_log \cup { <<"exists", size>> }
                    ELSE cache_log
    /\ Return(size, IF size < 1 THEN << >>
                    ELSE IF size = 1 THEN << unit_cube >>
                    ELSE << domino >>)
    /\ UNCHANGED << n, use_cache, cache >>
    /\ UNCHANGED << canonVars, countVars, loaded >>

\* n < 1, n == 1, n == 2
BaseCase ==
    /\ pc = "call"
    /\ size <= 2
    /\ Return(size, IF size < 1 THEN << >>
                    ELSE IF size = 1 THEN << unit_cube >>
                    ELSE << domino >>)
    /\ UNCHANGED << n, use_cache, cache, cache_log >>
    /\ UNCHANGED << canonVars, countVars, loaded >>

\* mutant: the loaded collection is returned in the opposite order
CacheHit_reversed ==
    /\ pc = "call"
    /\ size > 2
    /\ use_cache /\ cache[size].exists
    /\ load_from_cache(cache[size])[1]
    /\ cache_log' = cache_log \cup { <<"exists", size>>, <<"load", size>> }
    /\ Return(size, Reverse(load_from_cache(cache[size])[2]) \o << >>)
    /\ UNCHANGED << n, use_cache, cache >>
    /\ UNCHANGED << canonVars, countVars, loaded >>

\* the cache file exists and load_from_cache returns Ok
CacheHit ==
    /\ pc = "call"
    /\ size > 2
    /\ use_cache /\ cache[size].exists
    /\ load_from_cache(cache[size])[1]
    /\ cache_log' = cache_log \cup { <<"exists", size>>, <<"load", size>> }
    /\ Return(size, load_from_cache(cache[size])[2])
    /\ UNCHANGED << n, use_cache, cache >>
    /\ UNCHANGED << canonVars, countVars, loaded >>

\* mutant: a file that fails to load stops the call
Recurse_load_failure_fatal ==
    /\ pc = "call"
    /\ size > 2
    /\ IF ~use_cache THEN UNCHANGED cache_log
       ELSE /\ ~cache[size].exists
            /\ cache_log' = cache_log \cup { <<"exists", size>> }
    /\ size' = size - 1
    /\ UNCHANGED << n, use_cache, cache, pc, base_cubes, tasks, unique_forms,
                    lock, progress, result >>
    /\ UNCHANGED << canonVars, countVars, loaded >>

\* no cache, no file, or a load that fails: recurse for the base shapes
Recurse ==
    /\ pc = "call"
    /\ size > 2
    /\ IF ~use_cache THEN UNCHANGED cache_log
       ELSE IF ~cache[size].exists
            THEN cache_log' = cache_log \cup { <<"exists", size>> }
            ELSE /\ ~load_from_cache(cache[size])[1]
                 /\ cache_log' = cache_log \cup { <<"exists", size>>, <<"load", size>> }
    /\ size' = size - 1
    /\ UNCHANGED << n, use_cache, cache, pc, base_cubes, tasks, unique_forms,
                    lock, progress, result >>
    /\ UNCHANGED << canonVars, countVars, loaded >>

\* a thread of the pool takes the task of base shape i
StartTask(i, threads, orders) ==
    /\ pc = "expand"
    /\ i \in DOMAIN tasks
    /\ tasks[i].st = "todo"
    /\ Cardinality({ j \in DOMAIN tasks : tasks[j].st = "run" }) < threads
    \* a single thread runs the tasks in the order of base_cubes
    /\ threads = 1 => \A j \in 1..(i - 1) : tasks[j].st # "todo"
    \* the values the iterations will compute, tabulated once
    /\ \E expansions \in { [ position \in get_expansion_positions(base_cubes[i]) |->
                               Expansion(base_cubes[i], position) ] } :
       \E o \in 0..(orders - 1) :
          tasks' = [ tasks EXCEPT
             ![i].st = "run",
             ![i].positions = IterationOrder(DOMAIN expansions, o),
             ![i].expansions = expansions ]
    /\ UNCHANGED << n, use_cache, cache, cache_log, pc, size, base_cubes,
                    unique_forms, lock, progress, result >>
    /\ UNCHANGED << canonVars, countVars, loaded >>

\* one iteration of `for position in positions` up to the lock: expand,
\* check the connectivity, normalize, compute the signature
Prepare(i) ==
    /\ pc = "expand"
    /\ i \in DOMAIN tasks
    /\ tasks[i].st = "run" /\ tasks[i].pc = "pick"
    /\ Len(tasks[i].positions) > 0
    /\ LET position == Head(tasks[i].positions)
       IN  IF ~tasks[i].expansions[position].connected
           THEN tasks' = [ tasks EXCEPT ![i].positions = Tail(tasks[i].positions) ]
           ELSE tasks' = [ tasks EXCEPT
                  ![i].positions = Tail(tasks[i].positions),
                  ![i].normalized = tasks[i].expansions[position].normalized,
                  ![i].canonical = tasks[i].expansions[position].canonical,
                  ![i].pc = "lock" ]
    /\ UNCHANGED << n, use_cache, cache, cache_log, pc, size, base_cubes,
                    unique_forms, lock, progress, result >>
    /\ UNCHANGED << canonVars, countVars, loaded >>

\* unique_forms.lock(): blocks while another task holds the mutex
Lock(i) ==
    /\ pc = "expand"
    /\ i \in DOMAIN tasks
    /\ tasks[i].st = "run" /\ tasks[i].pc = "lock"
    /\ lock = 0
    /\ lock' = i
    /\ tasks' = [ tasks EXCEPT ![i].pc = "insert" ]
    /\ UNCHANGED << n, use_cache, cache, cache_log, pc, size, base_cubes,
                    unique_forms, progress, result >>
    /\ UNCHANGED << canonVars, countVars, loaded >>

\* mutant: the shape is pushed whatever insert() returns
Insert_always_push(i) ==
    /\ pc = "expand"
    /\ i \in DOMAIN tasks
    /\ tasks[i].st = "run" /\ tasks[i].pc = "insert"
    /\ lock = i
    /\ unique_forms' = unique_forms \cup { tasks[i].canonical }
    /\ tasks' = [ tasks EXCEPT
          ![i].local_polycubes = Append(tasks[i].local_polycubes, tasks[i].normalized),
          ![i].normalized = << >>,
          ![i].canonical = << >>,
          ![i].pc = "pick" ]
    /\ lock' = 0
    /\ UNCHANGED << n, use_cache, cache, cache_log, pc, size, base_cubes,
                    progress, result >>
    /\ UNCHANGED << canonVars, countVars, loaded >>

\* mutant: the signature of a retained shape is not put into the set
Insert_forgets_signature(i) ==
    /\ pc = "expand"
    /\ i \in DOMAIN tasks
    /\ tasks[i].st = "run" /\ tasks[i].pc = "insert"
    /\ lock = i
    /\ unique_forms' = unique_forms
    /\ tasks' = [ tasks EXCEPT
          ![i].local_polycubes =
              IF tasks[i].canonical \notin unique_forms
              THEN Append(tasks[i].local_polycubes, tasks[i].normalized)
              ELSE tasks[i].local_polycubes,
          ![i].normalized = << >>,
          ![i].canonical = << >>,
          ![i].pc = "pick" ]
    /\ lock' = 0
    /\ UNCHANGED << n, use_cache, cache, cache_log, pc, size, base_cubes,
                    progress, result >>
    /\ UNCHANGED << canonVars, countVars, loaded >>

\* mutant: the guard is kept when the iteration ends
Insert_keeps_guard(i) ==
    /\ pc = "expand"
    /\ i \in DOMAIN tasks
    /\ tasks[i].st = "run" /\ tasks[i].pc = "insert"
    /\ lock = i
    /\ unique_forms' = unique_forms \cup { tasks[i].canonical }
    /\ tasks' = [ tasks EXCEPT
          ![i].local_polycubes =
              IF tasks[i].canonical \notin unique_forms
              THEN Append(tasks[i].local_polycubes, tasks[i].normalized)
              ELSE tasks[i].local_polycubes,
          ![i].normalized = << >>,
          ![i].canonical = << >>,
          ![i].pc = "pick" ]
    /\ UNCHANGED << n, use_cache, cache, cache_log, pc, size, base_cubes,
                    lock, progress, result >>
    /\ UNCHANGED << canonVars, countVars, loaded >>

\* insert into the set, push when the signature is new, drop the guard
Insert(i) ==
    /\ pc = "expand"
    /\ i \in DOMAIN tasks
    /\ tasks[i].st = "run" /\ tasks[i].pc = "insert"
    /\ lock = i
    /\ unique_forms' = unique_forms \cup { tasks[i].canonical }
    /\ tasks' = [ tasks EXCEPT
          ![i].local_polycubes =
              IF tasks[i].canonical \notin unique_forms
              THEN Append(tasks[i].local_polycubes, tasks[i].normalized)
              ELSE tasks[i].local_polycubes,
          ![i].normalized = << >>,
          ![i].canonical = << >>,
          ![i].pc = "pick" ]
    /\ lock' = 0
    /\ UNCHANGED << n, use_cache, cache, cache_log, pc, size, base_cubes,
                    progress, result >>
    /\ UNCHANGED << canonVars, countVars, loaded >>

\* the positions are exhausted: update the progress, yield local_polycubes
FinishTask(i) ==
    /\ pc = "expand"
    /\ i \in DOMAIN tasks
    /\ tasks[i].st = "run" /\ tasks[i].pc = "pick"
    /\ Len(tasks[i].positions) = 0
    /\ progress' = progress + 1
    /\ tasks' = [ tasks EXCEPT ![i].st = "done", ![i].expansions = << >> ]
    /\ UNCHANGED << n, use_cache, cache, cache_log, pc, size, base_cubes,
                    unique_forms, lock, result >>
    /\ UNCHANGED << canonVars, countVars, loaded >>

\* mutant: only the result of the last task is kept
Collected_last_only ==
    IF Len(tasks) = 0 THEN << >> ELSE tasks[Len(tasks)].local_polycubes

\* flat_map(...).collect(): the local results in the order of base_cubes
Collected == Flatten([ i \in 1..Len(tasks) |-> tasks[i].local_polycubes ])

\* mutant: the result is saved whether or not the cache is in use
Collect_saves_always ==
    /\ pc = "expand"
    /\ \A i \in DOMAIN tasks : tasks[i].st = "done"
    /\ \E outcome \in { "ok", "not created", "truncated" } :
          cache' = [ cache EXCEPT ![size] =
              CASE outcome = "ok" -> save_to_cache(Collected)
                [] outcome = "not created" -> cache[size]
                [] outcome = "truncated" -> FileOf(<< >>) ]
    /\ cache_log' = cache_log \cup { <<"save", size>> }
    /\ Return(size, Collected)
    /\ UNCHANGED << n, use_cache >>
    /\ UNCHANGED << canonVars, countVars, loaded >>

\* every task is done: collect, save to the cache when asked, return.
\* The save succeeds, fails before the file is created, or fails after it
\* was created (and truncated).
Collect ==
    /\ pc = "expand"
    /\ \A i \in DOMAIN tasks : tasks[i].st = "done"
    /\ IF use_cache
       THEN /\ \E outcome \in { "ok", "not created", "truncated" } :
                 cache' = [ cache EXCEPT ![size] =
                     CASE outcome = "ok" -> save_to_cache(Collected)
                       [] outcome = "not created" -> cache[size]
                       [] outcome = "truncated" -> FileOf(<< >>) ]
            /\ cache_log' = cache_log \cup { <<"save", size>> }
       ELSE UNCHANGED << cache, cache_log >>
    /\ Return(size, Collected)
    /\ UNCHANGED << n, use_cache >>
    /\ UNCHANGED << canonVars, countVars, loaded >>

----------------------------------------------------------------------------
(* The run of generate_polycubes in which every HashSet is iterated in     *)
(* sorted order and the tasks run one after the other.                     *)

\* the loop over the positions of one base shape, from the k-th of its
\* positions on; fl is << unique_forms, local_polycubes >>
RECURSIVE GrowPositions(_, _, _, _)
GrowPositions(base_cube, positions, k, fl) ==
    IF k > Len(positions) THEN fl
    ELSE Let(Expansion(base_cube, positions[k]), LAMBDA e :
           IF ~e.connected
           THEN GrowPositions(base_cube, positions, k + 1, fl)
           ELSE Let(<< fl[1] \cup {e.canonical},
                       IF e.canonical \notin fl[1]
                       THEN Append(fl[2], e.normalized) ELSE fl[2] >>,
                    LAMBDA next : GrowPositions(base_cube, positions, k + 1, next)))

\* the tasks of base shapes i..Len(bases), in order; fr is
\* << unique_forms, results >>
RECURSIVE GrowBases(_, _, _)
GrowBases(bases, i, fr) ==
    IF i > Len(bases) THEN fr[2]
    ELSE Let(GrowPositions(bases[i],
                           IterationOrder(get_expansion_positions(bases[i]), 0),
                           1, << fr[1], << >> >>),
             LAMBDA grown :
                GrowBases(bases, i + 1, << grown[1], fr[2] \o grown[2] >>))

RECURSIVE SequentialRun(_)
SequentialRun(sz) ==
    IF sz < 1 THEN << >>
    ELSE IF sz = 1 THEN << unit_cube >>
    ELSE IF sz = 2 THEN << domino >>
    ELSE Let(SequentialRun(sz - 1),
             LAMBDA bases : GrowBases(bases, 1, << {}, << >> >>))

----------------------------------------------------------------------------
(* Initial states and specifications.                                      *)

MaxOf(S) == CHOOSE m \in S : \A v \in S : v <= m

CacheSizes == 1..MaxOf(ParSizes \cup {1})

\* the artifact a complete earlier run left for a size
SavedFile(sz) == save_to_cache(SequentialRun(sz))

\* an artifact cut short: the first half of a saved one
TruncatedFile(sz) ==
    LET bytes == SavedFile(sz).bytes
    IN  FileOf(SubSeq(bytes, 1, Len(bytes) \div 2))

\* a saved artifact that cannot be read
UnreadableFile(sz) == [ SavedFile(sz) EXCEPT !.readable = FALSE ]

\* the cache directories a run may start with (the artifacts of sizes 1
\* and 2, which no call looks at, are both absent or both saved)
CacheChoices ==
    { c \in [ CacheSizes -> { "absent", "saved", "truncated", "unreadable" } ] :
        \A sz \in CacheSizes :
            sz <= 2 => c[sz] = c[1] /\ c[sz] \in { "absent", "saved" } }

\* the artifacts of every kind, by kind and size
Artifacts ==
    [ absent     |-> [ sz \in CacheSizes |-> NoFile ] \o << >>,
      saved      |-> [ sz \in CacheSizes |-> SavedFile(sz) ] \o << >>,
      truncated  |-> [ sz \in CacheSizes |-> TruncatedFile(sz) ] \o << >>,
      unreadable |-> [ sz \in CacheSizes |-> UnreadableFile(sz) ] \o << >> ]

FilesOf(c, artifacts) == [ sz \in CacheSizes |-> artifacts[c[sz]][sz] ]

\* the calls the parallel specification starts with: a size, the flag and
\* a cache directory.  At the largest size the two levels of parallel
\* expansion are explored together only without the cache (over a full
\* directory); with the cache the artifact of that size is a saved one, or
\* a truncated one over a saved one of the size below.
StartChoices ==
    { st \in ParSizes \X BOOLEAN \X CacheChoices :
        st[1] >= 4 =>
           IF st[2]
           THEN /\ st[3][1] = "absent"
                /\ \/ st[3][4] = "saved"
                   \/ st[3][4] = "truncated" /\ st[3][3] = "saved"
           ELSE \A sz \in CacheSizes : st[3][sz] = "saved" }

InitGen(starts) ==
    /\ \E artifacts \in { Artifacts } :
         \E st \in starts :
            /\ n = st[1]
            /\ use_cache = st[2]
            /\ cache = FilesOf(st[3], artifacts)
    /\ cache_log = {}
    /\ pc = "call"
    /\ size = n
    /\ base_cubes = << >>
    /\ tasks = << >>
    /\ unique_forms = {}
    /\ lock = 0
    /\ progress = 0
    /\ result = << >>
    /\ loaded = << >>

\* no function of safe_counter.rs is called
InitFixedIdle ==
    /\ queue = << >>
    /\ visited_hashes = {}
    /\ count = 0
    /\ dropped = {}

InitParIdle ==
    /\ starting_polycubes = << >>
    /\ par_tasks = << >>
    /\ counter = 0
    /\ counter_lock = 0
    /\ completed = 0
    /\ progress_lock = 0

InitCountIdle ==
    /\ call = << >>
    /\ engine = << >>
    /\ InitFixedIdle
    /\ InitParIdle
    /\ returned_count = << >>

InitCanonIdle ==
    /\ shape = << >>
    /\ other = << >>
    /\ op = "none"
    /\ matrix = << >>
    /\ hash = << >>
    /\ other_hash = << >>

Init ==
    /\ InitGen(StartChoices)
    /\ InitCanonIdle
    /\ InitCountIdle

NextGen(threads, orders) ==
    \/ BaseCase
    \/ CacheHit
    \/ Recurse
    \/ \E i \in DOMAIN tasks : StartTask(i, threads, orders)
    \/ \E i \in DOMAIN tasks : Prepare(i)
    \/ \E i \in DOMAIN tasks : Lock(i)
    \/ \E i \in DOMAIN tasks : Insert(i)
    \/ \E i \in DOMAIN tasks : FinishTask(i)
    \/ Collect

Next == NextGen(NumThreads, HashOrders)

Spec == Init /\ [][Next]_vars

\* the call is not stuck: it is at its entry and one of its three ways on is
\* enabled, or a thread of the pool can take a task, or a running task can
\* take its next step (it waits only for the mutex, at "lock"), or every
\* task is done and the results can be collected and saved
CanStep ==
    \/ pc = "call" /\ ENABLED (BaseCase \/ CacheHit \/ Recurse)
    \/ /\ pc = "expand"
       /\ \E i \in DOMAIN tasks :
             /\ tasks[i].st = "todo"
             /\ Cardinality({ j \in DOMAIN tasks : tasks[j].st = "run" }) < NumThreads
    \/ /\ pc = "expand"
       /\ \E i \in DOMAIN tasks :
             /\ tasks[i].st = "run"
             /\ \/ tasks[i].pc = "pick"
                \/ tasks[i].pc = "lock" /\ lock = 0
                \/ tasks[i].pc = "insert" /\ lock = i
    \/ /\ pc = "expand"
       /\ \A i \in DOMAIN tasks : tasks[i].st = "done"
       /\ ENABLED Collect

\* the sequential run: one thread, every HashSet iterated in ascending
\* order, no cache
SeqStarts ==
    { st \in (0..MaxSeqN) \X {FALSE} \X CacheChoices :
        \A sz \in CacheSizes : st[3][sz] = "absent" }

InitSeq ==
    /\ InitGen(SeqStarts)
    /\ InitCanonIdle
    /\ InitCountIdle

NextSeq ==
    \/ BaseCase
    \/ Recurse
    \/ \E i \in DOMAIN tasks : StartTask(i, 1, 1)
    \/ \E i \in DOMAIN tasks : Prepare(i)
    \/ \E i \in DOMAIN tasks : Lock(i)
    \/ \E i \in DOMAIN tasks : Insert(i)
    \/ \E i \in DOMAIN tasks : FinishTask(i)
    \/ Collect

SpecSeq == InitSeq /\ [][NextSeq]_vars

----------------------------------------------------------------------------
(* The canonicalization on its own: a shape, and what the operations of    *)
(* rotation.rs make of it.                                                 *)

\* the face-connected shapes of sz cells, normalized and sorted
RECURSIVE FixedShapes(_)
FixedShapes(sz) ==
    IF sz <= 1 THEN { unit_cube }
    ELSE UNION { { SortPositions(normalize(expand(b, p))) :
                     p \in get_expansion_positions(b) } : b \in FixedShapes(sz - 1) }

InitGenIdle ==
    /\ n = 0
    /\ use_cache = FALSE
    /\ cache = [ sz \in CacheSizes |-> NoFile ]
    /\ cache_log = {}
    /\ pc = "done"
    /\ size = 0
    /\ base_cubes = << >>
    /\ tasks = << >>
    /\ unique_forms = {}
    /\ lock = 0
    /\ progress = 0
    /\ result = << >>
    /\ loaded = << >>

\* a shape to operate on, or two of the shapes the generator returns for one
\* size to compare
InitCanon ==
    /\ InitGenIdle
    /\ InitCountIdle
    /\ \E sz \in 1..MaxCells :
          \E returned \in { Range(SequentialRun(sz)) } :
             \/ shape \in FixedShapes(sz) /\ other = shape
             \/ shape \in returned /\ other \in returned
    /\ op = "none"
    /\ matrix = << >>
    /\ hash = get_canonical_hash(shape)
    /\ other_hash = get_canonical_hash(other)

\* shape.apply_rotation(&generate_rotation_matrices()[k])
CanonRotate(k) ==
    /\ op = "none" /\ other = shape
    /\ matrix' = generate_rotation_matrices[k]
    /\ shape' = apply_rotation(shape, matrix')
    /\ op' = "rotate"
    /\ hash' = get_canonical_hash(shape')
    /\ UNCHANGED << other, other_hash, genVars, countVars, loaded >>

\* the shape moved by one cell along an axis
CanonTranslate(d) ==
    /\ op = "none" /\ other = shape
    /\ shape' = [ i \in 1..Len(shape) |->
                    Pos(shape[i][1] + d[1], shape[i][2] + d[2], shape[i][3] + d[3]) ]
    /\ op' = "translate"
    /\ hash' = get_canonical_hash(shape')
    /\ UNCHANGED << other, other_hash, matrix, genVars, countVars, loaded >>

\* the mirror image of the shape (x negated)
CanonMirror ==
    /\ op = "none" /\ other = shape
    /\ shape' = normalize([ i \in 1..Len(shape) |->
                              Pos(0 - shape[i][1], shape[i][2], shape[i][3]) ])
    /\ op' = "mirror"
    /\ hash' = get_canonical_hash(shape')
    /\ UNCHANGED << other, other_hash, matrix, genVars, countVars, loaded >>

\* the canonical representative get_canonical_hash selects
CanonCanonicalize ==
    /\ op = "none" /\ other = shape
    /\ shape' = canonical_positions(shape)
    /\ op' = "canonicalize"
    /\ hash' = get_canonical_hash(shape')
    /\ UNCHANGED << other, other_hash, matrix, genVars, countVars, loaded >>

UnitMoves ==
    { <<1, 0, 0>>, <<-1, 0, 0>>, <<0, 1, 0>>, <<0, -1, 0>>, <<0, 0, 1>>, <<0, 0, -1>> }

NextCanon ==
    \/ \E k \in 1..Len(generate_rotation_matrices) : CanonRotate(k)
    \/ \E d \in UnitMoves : CanonTranslate(d)
    \/ CanonMirror
    \/ CanonCanonicalize

SpecCanon == InitCanon /\ [][NextCanon]_vars

----------------------------------------------------------------------------
(* The public counters on their own: one call of count_polycubes, the      *)
(* functions it calls returning any of a few values.                       *)

\* values an engine may return: zero, values around a multiple of 24, and
\* the number of fixed polycubes of size 8
EngineCounts == { 0, 23, 24, 47, 162913 }

\* count_polycubes(n, use_symmetry) is called; config is None, so threads
\* is the number of processors of the machine
InitCount ==
    /\ InitGenIdle
    /\ InitCanonIdle
    /\ \E cn \in 0..MaxCountN, use_symmetry \in BOOLEAN, threads \in 1..NumThreads :
          call = [ fn |-> "count_polycubes", n |-> cn,
                   use_symmetry |-> use_symmetry, threads |-> threads ]
    /\ engine \in [ generated : EngineCounts, improved : EngineCounts,
                    parallel : EngineCounts ]
    /\ InitFixedIdle
    /\ InitParIdle
    /\ returned_count = << >>

\* the call returns
CountReturn ==
    /\ call # << >> /\ call.fn = "count_polycubes"
    /\ returned_count = << >>
    /\ returned_count' = << count_polycubes(call.n, call.use_symmetry, call.threads,
                                            engine.generated, engine.improved,
                                            engine.parallel) >>
    /\ UNCHANGED << call, engine, fixedVars, parVars, genVars, canonVars, loaded >>

NextCount == CountReturn

SpecCount == InitCount /\ [][NextCount]_vars

----------------------------------------------------------------------------
(* count_fixed_polycubes_improved as a state machine: one step per         *)
(* iteration of `while let Some(..) = queue.pop_front()`.                  *)

\* mutant: the hash of an enqueued shape is not put into visited_hashes
RECURSIVE TryExtensions_no_insert(_, _, _, _, _)
TryExtensions_no_insert(extensions, k, positions, sz, acc) ==
    IF k > Len(extensions) THEN acc
    ELSE Let(canonicalize_in_place(Append(positions, extensions[k])),
             LAMBDA new_positions :
               TryExtensions_no_insert(extensions, k + 1, positions, sz,
                 IF hash_polycube(new_positions) \in acc[2] THEN acc
                 ELSE IF ~is_connected(new_positions)
                      THEN << acc[1], acc[2], acc[3] \cup {new_positions} >>
                      ELSE << Append(acc[1], << new_positions, sz + 1 >>),
                              acc[2], acc[3] >>))

\* `for ext_pos in extensions`, from extension k on; acc is
\* << queue, visited_hashes, dropped >>
RECURSIVE TryExtensions(_, _, _, _, _)
TryExtensions(extensions, k, positions, sz, acc) ==
    IF k > Len(extensions) THEN acc
    ELSE Let(canonicalize_in_place(Append(positions, extensions[k])),
             LAMBDA new_positions :
               TryExtensions(extensions, k + 1, positions, sz,
                 IF hash_polycube(new_positions) \in acc[2] THEN acc
                 ELSE IF ~is_connected(new_positions)
                      THEN << acc[1], acc[2], acc[3] \cup {new_positions} >>
                      ELSE << Append(acc[1], << new_positions, sz + 1 >>),
                              acc[2] \cup {hash_polycube(new_positions)},
                              acc[3] >>))

\* count_fixed_polycubes_improved(n) is called; `order` is the iteration
\* order of the FxHashSets of this run
InitFixed ==
    /\ InitGenIdle
    /\ InitCanonIdle
    /\ \E cn \in 1..MaxFixedN, o \in 0..(HashOrders - 1) :
          call = [ fn |-> "count_fixed_polycubes_improved", n |-> cn,
                   order |-> o, at |-> "entry" ]
    /\ engine = << >>
    /\ InitFixedIdle
    /\ InitParIdle
    /\ returned_count = << >>

Improved(at) ==
    /\ call # << >> /\ call.fn = "count_fixed_polycubes_improved"
    /\ call.at = at
    /\ returned_count = << >>

\* if n <= 2 { return .. 1 }
ImprovedSmall ==
    /\ Improved("entry") /\ call.n <= 2
    /\ returned_count' = << 1 >>
    /\ UNCHANGED << call, engine, fixedVars, parVars, genVars, canonVars, loaded >>

\* the queue and the visited set start with the single cube
ImprovedStart ==
    /\ Improved("entry") /\ call.n > 2
    /\ queue' = << << << <<0, 0, 0>> >>, 1 >> >>
    /\ visited_hashes' = { hash_polycube(<< <<0, 0, 0>> >>) }
    /\ count' = 0
    /\ call' = [ call EXCEPT !.at = "loop" ]
    /\ UNCHANGED << engine, dropped, parVars, returned_count, genVars, canonVars,
                    loaded >>

\* the shape popped has the target size (or more): it is counted (or
\* skipped)
ImprovedCount ==
    /\ Improved("loop") /\ Len(queue) > 0
    /\ Head(queue)[2] >= call.n
    /\ queue' = Tail(queue)
    /\ count' = IF Head(queue)[2] = call.n THEN count + 1 ELSE count
    /\ UNCHANGED << call, engine, visited_hashes, dropped, parVars, returned_count,
                    genVars, canonVars, loaded >>

\* the shape popped is smaller: its extensions are tried in turn
ImprovedExpand ==
    /\ Improved("loop") /\ Len(queue) > 0
    /\ Head(queue)[2] < call.n
    /\ \E next \in { TryExtensions(
                        IterationOrder(get_valid_extensions(Head(queue)[1]), call.order),
                        1, Head(queue)[1], Head(queue)[2],
                        << Tail(queue), visited_hashes, dropped >>) } :
          /\ queue' = next[1]
          /\ visited_hashes' = next[2]
          /\ dropped' = next[3]
    /\ UNCHANGED << call, engine, count, parVars, returned_count, genVars, canonVars,
                    loaded >>

\* the queue is empty: count is returned
ImprovedReturn ==
    /\ Improved("loop") /\ Len(queue) = 0
    /\ returned_count' = << count >>
    /\ UNCHANGED << call, engine, fixedVars, parVars, genVars, canonVars, loaded >>

NextFixed ==
    \/ ImprovedSmall
    \/ ImprovedStart
    \/ ImprovedCount
    \/ ImprovedExpand
    \/ ImprovedReturn

SpecFixed == InitFixed /\ [][NextFixed]_vars

\* the two places where a candidate is checked for connectivity: a
\* sequential run of generate_polycubes, or a run of
\* count_fixed_polycubes_improved
InitConnected ==
    \/ InitSeq
    \/ InitFixed

NextConnected ==
    \/ NextSeq
    \/ NextFixed

SpecConnected == InitConnected /\ [][NextConnected]_vars

----------------------------------------------------------------------------
(* count_fixed_polycubes_parallel: the seeds, the depth-first completion   *)
(* of one seed, and the tasks of the parallel iterator as a state machine. *)

\* `for ext_pos in extensions` of generate_starting_polycubes, from
\* extension k on; qv is << queue, visited_hashes >>
RECURSIVE TryStarting(_, _, _, _, _)
TryStarting(extensions, k, positions, sz, qv) ==
    IF k > Len(extensions) THEN qv
    ELSE Let(canonicalize_in_place(Append(positions, extensions[k])),
             LAMBDA new_positions :
               TryStarting(extensions, k + 1, positions, sz,
                 IF hash_polycube(new_positions) \in qv[2] THEN qv
                 ELSE << Append(qv[1], << new_positions, sz + 1 >>),
                         qv[2] \cup {hash_polycube(new_positions)} >>))

\* the loop of generate_starting_polycubes; qvr is
\* << queue, visited_hashes, result >>
RECURSIVE StartingLoop(_, _, _)
StartingLoop(qvr, sz, o) ==
    IF Len(qvr[1]) = 0 THEN qvr[3]
    ELSE IF Head(qvr[1])[2] = sz
         THEN StartingLoop(<< Tail(qvr[1]), qvr[2], Append(qvr[3], Head(qvr[1])[1]) >>,
                           sz, o)
         ELSE Let(TryStarting(IterationOrder(get_valid_extensions(Head(qvr[1])[1]), o),
                              1, Head(qvr[1])[1], Head(qvr[1])[2],
                              << Tail(qvr[1]), qvr[2] >>),
                  LAMBDA next : StartingLoop(<< next[1], next[2], qvr[3] >>, sz, o))

generate_starting_polycubes(sz, o) ==
    IF sz = 1 THEN << << <<0, 0, 0>> >> >>
    ELSE IF sz = 2 THEN << << <<0, 0, 0>>, <<1, 0, 0>> >> >>
    ELSE StartingLoop(<< << << << <<0, 0, 0>> >>, 1 >> >>,
                         { hash_polycube(<< <<0, 0, 0>> >>) },
                         << >> >>, sz, o)

\* the new_positions of the iterations of `for ext_pos in extensions`, each
\* with the value of is_connected for it
Extended(positions, extensions) ==
    [ k \in 1..Len(extensions) |->
        Let(canonicalize_in_place(Append(positions, extensions[k])),
            LAMBDA new_positions : << new_positions, is_connected(new_positions) >>)
    ] \o << >>

RECURSIVE SumFrom(_, _)
SumFrom(counts, k) ==
    IF k > Len(counts) THEN 0 ELSE counts[k] + SumFrom(counts, k + 1)

\* count_extensions_from(positions, remaining).  visited_hashes is created
\* by each call and an iteration inserts its hash when it passes both
\* checks, so iteration k finds its hash in the set exactly when an earlier
\* iteration of the same call whose shape is connected had the same hash;
\* count is the sum of what the other iterations add.
RECURSIVE count_extensions_from(_, _, _)
count_extensions_from(positions, remaining, o) ==
    IF remaining = 0 THEN 1
    ELSE Let(Extended(positions, IterationOrder(get_valid_extensions(positions), o)),
             LAMBDA new :
               SumFrom([ k \in 1..Len(new) |->
                          IF \E j \in 1..(k - 1) :
                                /\ new[j][2]
                                /\ hash_polycube(new[j][1]) = hash_polycube(new[k][1])
                          THEN 0
                          ELSE IF ~new[k][2] THEN 0
                          ELSE count_extensions_from(new[k][1], remaining - 1, o)
                       ] \o << >>, 1))

NewSeedTask(extensions_count) ==
    [ st |-> "todo", pc |-> "count", extensions_count |-> extensions_count,
      partial_count |-> 0, count |-> 0 ]

\* count_fixed_polycubes_parallel(n) is called; `order` is the iteration
\* order of the FxHashSets of this run, and show_progress is set when
\* config is first read
InitPar ==
    /\ InitGenIdle
    /\ InitCanonIdle
    /\ \E cn \in 1..MaxParN, o \in 0..(HashOrders - 1) :
          call = [ fn |-> "count_fixed_polycubes_parallel", n |-> cn,
                   show_progress |-> FALSE, order |-> o, at |-> "entry" ]
    /\ engine = << >>
    /\ InitFixedIdle
    /\ InitParIdle
    /\ returned_count = << >>

Parallel(at) ==
    /\ call # << >> /\ call.fn = "count_fixed_polycubes_parallel"
    /\ call.at = at
    /\ returned_count = << >>

\* if n <= 2 { return .. 1 }
ParallelSmall ==
    /\ Parallel("entry") /\ call.n <= 2
    /\ returned_count' = << 1 >>
    /\ UNCHANGED << call, engine, fixedVars, parVars, genVars, canonVars, loaded >>

\* the seeds are generated, the counter and the progress count are created
\* and the parallel iterator gets one task per seed (what each task will
\* count is tabulated once)
ParallelStart ==
    /\ Parallel("entry") /\ call.n > 2
    /\ \E seeds \in { generate_starting_polycubes(IF call.n <= 10 THEN 3 ELSE 4,
                                                  call.order) } :
          /\ starting_polycubes' = seeds
          /\ par_tasks' = [ i \in 1..Len(seeds) |->
                NewSeedTask(count_extensions_from(seeds[i], call.n - Len(seeds[i]),
                                                  call.order)) ] \o << >>
    /\ counter' = 0
    /\ completed' = 0
    /\ \E show_progress \in BOOLEAN :
          call' = [ call EXCEPT !.at = "for_each", !.show_progress = show_progress ]
    /\ UNCHANGED << engine, fixedVars, counter_lock, progress_lock, returned_count,
                    genVars, canonVars, loaded >>

SeedStep(i, pc_i) ==
    /\ Parallel("for_each")
    /\ i \in DOMAIN par_tasks
    /\ par_tasks[i].st = "run" /\ par_tasks[i].pc = pc_i

\* a thread of the pool takes the task of seed i (the seeds are taken in
\* the order of the vector) and counts the extensions of the seed
SeedCount(i, threads) ==
    /\ Parallel("for_each")
    /\ i \in DOMAIN par_tasks
    /\ par_tasks[i].st = "todo"
    /\ Cardinality({ j \in DOMAIN par_tasks : par_tasks[j].st = "run" }) < threads
    /\ \A j \in 1..(i - 1) : par_tasks[j].st # "todo"
    /\ par_tasks' = [ par_tasks EXCEPT
          ![i].st = "run",
          ![i].partial_count = par_tasks[i].extensions_count,
          ![i].pc = "lock" ]
    /\ UNCHANGED << call, engine, fixedVars, starting_polycubes, counter, counter_lock,
                    completed, progress_lock, returned_count, genVars, canonVars,
                    loaded >>

\* mutant: the counter is taken without waiting for the mutex
SeedLock_no_wait(i) ==
    /\ SeedStep(i, "lock")
    /\ counter_lock' = i
    /\ par_tasks' = [ par_tasks EXCEPT ![i].pc = "read" ]
    /\ UNCHANGED << call, engine, fixedVars, starting_polycubes, counter, completed,
                    progress_lock, returned_count, genVars, canonVars, loaded >>

\* counter.lock(): blocks while another task holds the mutex
SeedLock(i) ==
    /\ SeedStep(i, "lock")
    /\ counter_lock = 0
    /\ counter_lock' = i
    /\ par_tasks' = [ par_tasks EXCEPT ![i].pc = "read" ]
    /\ UNCHANGED << call, engine, fixedVars, starting_polycubes, counter, completed,
                    progress_lock, returned_count, genVars, canonVars, loaded >>

\* *count += partial_count: the value is read ...
SeedRead(i) ==
    /\ SeedStep(i, "read")
    /\ par_tasks' = [ par_tasks EXCEPT ![i].count = counter, ![i].pc = "write" ]
    /\ UNCHANGED << call, engine, fixedVars, starting_polycubes, counter, counter_lock,
                    completed, progress_lock, returned_count, genVars, canonVars,
                    loaded >>

\* ... and the sum is written (u64 arithmetic, whose range the counts of
\* the model do not approach)
SeedWrite(i) ==
    /\ SeedStep(i, "write")
    /\ counter' = par_tasks[i].count + par_tasks[i].partial_count
    /\ par_tasks' = [ par_tasks EXCEPT
          ![i].pc = IF call.show_progress THEN "progress" ELSE "unlock" ]
    /\ UNCHANGED << call, engine, fixedVars, starting_polycubes, counter_lock,
                    completed, progress_lock, returned_count, genVars, canonVars,
                    loaded >>

\* if config.show_progress: progress.lock(), *completed += 1
SeedProgress(i) ==
    /\ SeedStep(i, "progress")
    /\ progress_lock = 0
    /\ progress_lock' = i
    /\ completed' = completed + 1
    /\ par_tasks' = [ par_tasks EXCEPT ![i].pc = "unlock" ]
    /\ UNCHANGED << call, engine, fixedVars, starting_polycubes, counter, counter_lock,
                    returned_count, genVars, canonVars, loaded >>

\* the closure ends: the guards are dropped
SeedUnlock(i) ==
    /\ SeedStep(i, "unlock")
    /\ progress_lock' = IF progress_lock = i THEN 0 ELSE progress_lock
    /\ counter_lock' = IF counter_lock = i THEN 0 ELSE counter_lock
    /\ par_tasks' = [ par_tasks EXCEPT ![i].st = "done", ![i].count = 0 ]
    /\ UNCHANGED << call, engine, fixedVars, starting_polycubes, counter, completed,
                    returned_count, genVars, canonVars, loaded >>

\* for_each has returned: every task is done; the counter is read and
\* returned
ParallelReturn ==
    /\ Parallel("for_each")
    /\ \A i \in DOMAIN par_tasks : par_tasks[i].st = "done"
    /\ counter_lock = 0
    /\ returned_count' = << counter >>
    /\ UNCHANGED << call, engine, fixedVars, parVars, genVars, canonVars, loaded >>

NextPar ==
    \/ ParallelSmall
    \/ ParallelStart
    \/ \E i \in DOMAIN par_tasks : SeedCount(i, NumThreads)
    \/ \E i \in DOMAIN par_tasks : SeedLock(i)
    \/ \E i \in DOMAIN par_tasks : SeedRead(i)
    \/ \E i \in DOMAIN par_tasks : SeedWrite(i)
    \/ \E i \in DOMAIN par_tasks : SeedProgress(i)
    \/ \E i \in DOMAIN par_tasks : SeedUnlock(i)
    \/ ParallelReturn

SpecPar == InitPar /\ [][NextPar]_vars

----------------------------------------------------------------------------
(* The two engines of count_fixed_polycubes on the same target, one after  *)
(* the other: threads <= 1, then threads > 1.                              *)

\* count_fixed_polycubes_improved(n) is called, n >= 3, the hash sets
\* iterated in ascending order
InitThreads ==
    /\ InitFixed
    /\ call.n >= 3 /\ call.order = 0

\* the breadth-first count has returned (it stays in `count`);
\* count_fixed_polycubes_parallel is called for the same target
RunParallel ==
    /\ call # << >> /\ call.fn = "count_fixed_polycubes_improved"
    /\ returned_count # << >>
    /\ call' = [ fn |-> "count_fixed_polycubes_parallel", n |-> call.n,
                 show_progress |-> FALSE, order |-> call.order, at |-> "entry" ]
    /\ returned_count' = << >>
    /\ UNCHANGED << engine, fixedVars, parVars, genVars, canonVars, loaded >>

NextThreads ==
    \/ ImprovedStart
    \/ ImprovedCount
    \/ ImprovedExpand
    \/ ImprovedReturn
    \/ RunParallel
    \/ ParallelStart
    \/ \E i \in DOMAIN par_tasks : SeedCount(i, NumThreads)
    \/ \E i \in DOMAIN par_tasks : SeedLock(i)
    \/ \E i \in DOMAIN par_tasks : SeedRead(i)
    \/ \E i \in DOMAIN par_tasks : SeedWrite(i)
    \/ \E i \in DOMAIN par_tasks : SeedProgress(i)
    \/ \E i \in DOMAIN par_tasks : SeedUnlock(i)
    \/ ParallelReturn

SpecThreads == InitThreads /\ [][NextThreads]_vars

----------------------------------------------------------------------------
(* The breadth-first loop of count_fixed_polycubes_improved as a program   *)
(* that keeps running until it returns.                                    *)

NextBfs ==
    \/ ImprovedStart
    \/ ImprovedCount
    \/ ImprovedExpand
    \/ ImprovedReturn

\* the function can take a step: it is at its entry with n > 2, or in the
\* loop (an iteration when the queue is not empty, the return when it is)
BfsCanStep ==
    \/ Improved("entry") /\ call.n > 2
    \/ Improved("loop")

\* the thread that runs the function is not stopped for ever
FairBfs == []<>(~BfsCanStep) \/ []<><<TRUE>>_vars

SpecBfs == InitThreads /\ [][NextBfs]_vars /\ FairBfs

----------------------------------------------------------------------------
(* The cache on its own: a generation result is saved, the file may be cut *)
(* short, and it is loaded again.                                          *)

\* generate_polycubes(n, ..) has returned `result`, in the order of the
\* sequential run or in the opposite order; no file is in the directory
InitCache ==
    /\ \E sz \in 1..MaxCacheN :
         \E sequential \in { SequentialRun(sz) } :
            /\ n = sz
            /\ size = sz
            /\ result \in { sequential, Reverse(sequential) \o << >> }
    /\ use_cache = TRUE
    /\ cache = [ sz \in 1..MaxCacheN |-> NoFile ]
    /\ cache_log = {}
    /\ pc = "done"
    /\ base_cubes = << >>
    /\ tasks = << >>
    /\ unique_forms = {}
    /\ lock = 0
    /\ progress = 0
    /\ loaded = << >>
    /\ InitCanonIdle
    /\ InitCountIdle

\* save_to_cache(&polycubes, &cache_path): Ok, or an error before or after
\* File::create
CacheSave ==
    /\ ~cache[n].exists /\ cache_log = {}
    /\ \E outcome \in { "ok", "not created", "truncated" } :
          /\ cache' = [ cache EXCEPT ![n] =
                CASE outcome = "ok" -> save_to_cache(result)
                  [] outcome = "not created" -> cache[n]
                  [] outcome = "truncated" -> FileOf(<< >>) ]
          /\ cache_log' = { <<"save", n>>, <<outcome, n>> }
    /\ UNCHANGED << n, use_cache, pc, size, base_cubes, tasks, unique_forms, lock,
                    progress, result, canonVars, countVars, loaded >>

\* the file is cut to its first k bytes before it is read again
CacheTruncate(k) ==
    /\ cache[n].exists /\ loaded = << >>
    /\ <<"ok", n>> \in cache_log /\ <<"cut", n>> \notin cache_log
    /\ k < Len(cache[n].bytes)
    /\ cache' = [ cache EXCEPT ![n] = FileOf(SubSeq(cache[n].bytes, 1, k)) ]
    /\ cache_log' = cache_log \cup { <<"cut", n>> }
    /\ UNCHANGED << n, use_cache, pc, size, base_cubes, tasks, unique_forms, lock,
                    progress, result, canonVars, countVars, loaded >>

\* Path::new(&cache_path).exists() and load_from_cache(&cache_path)
CacheLoad ==
    /\ cache[n].exists /\ loaded = << >>
    /\ loaded' = load_from_cache(cache[n])
    /\ cache_log' = cache_log \cup { <<"exists", n>>, <<"load", n>> }
    /\ UNCHANGED << n, use_cache, cache, pc, size, base_cubes, tasks, unique_forms,
                    lock, progress, result, canonVars, countVars >>

\* the longest file a result of the model is saved as
MaxFileLen == Len(save_to_cache(SequentialRun(MaxCacheN)).bytes)

NextCache ==
    \/ CacheSave
    \/ \E k \in 0..MaxFileLen : CacheTruncate(k)
    \/ CacheLoad

SpecCache == InitCache /\ [][NextCache]_vars

----------------------------------------------------------------------------
(* generate_polycubes over a cache directory it did not write itself: the  *)
(* file of size n - 1 is a well-formed artifact, whatever its shapes are.  *)

\* the collections such a file may hold: load_from_cache checks the
\* encoding, not the shapes
ForeignResults ==
    { << << Pos(0, 0, 0), Pos(2, 0, 0), Pos(3, 0, 0) >> >>,
      << << Pos(0, 0, 0), Pos(1, 0, 0), Pos(2, 0, 0) >>,
         << Pos(0, 0, 0), Pos(0, 2, 0), Pos(0, 3, 0) >> >> }

\* generate_polycubes(4, true) is called; cubes_3.zst is such a file
InitForeign ==
    /\ n = 4
    /\ use_cache = TRUE
    /\ \E foreign \in ForeignResults :
          cache = [ sz \in CacheSizes |->
                      IF sz = 3 THEN save_to_cache(foreign) ELSE NoFile ]
    /\ cache_log = {}
    /\ pc = "call"
    /\ size = n
    /\ base_cubes = << >>
    /\ tasks = << >>
    /\ unique_forms = {}
    /\ lock = 0
    /\ progress = 0
    /\ result = << >>
    /\ loaded = << >>
    /\ InitCanonIdle
    /\ InitCountIdle

NextForeign ==
    \/ CacheHit
    \/ Recurse
    \/ \E i \in DOMAIN tasks : StartTask(i, NumThreads, 1)
    \/ \E i \in DOMAIN tasks : Prepare(i)
    \/ \E i \in DOMAIN tasks : Lock(i)
    \/ \E i \in DOMAIN tasks : Insert(i)
    \/ \E i \in DOMAIN tasks : FinishTask(i)
    \/ Collect

SpecForeign == InitForeign /\ [][NextForeign]_vars

----------------------------------------------------------------------------
(* The two parallel runs under a scheduler that keeps running: as long as  *)
(* a thread of the pool can take a step, some thread does.                 *)

\* generate_polycubes(n, false) for the largest n of the model, or
\* count_fixed_polycubes_parallel(3) (15 seeds, none to extend); the hash
\* sets are iterated in ascending order
InitFair ==
    \/ /\ Init
       /\ n = MaxOf(ParSizes) /\ ~use_cache
    \/ /\ InitPar
       /\ call.n = 3 /\ call.order = 0

NextFair ==
    \/ BaseCase
    \/ Recurse
    \/ \E i \in DOMAIN tasks : StartTask(i, NumThreads, 1)
    \/ \E i \in DOMAIN tasks : Prepare(i)
    \/ \E i \in DOMAIN tasks : Lock(i)
    \/ \E i \in DOMAIN tasks : Insert(i)
    \/ \E i \in DOMAIN tasks : FinishTask(i)
    \/ Collect
    \/ ParallelStart
    \/ \E i \in DOMAIN par_tasks : SeedCount(i, NumThreads)
    \/ \E i \in DOMAIN par_tasks : SeedLock(i)
    \/ \E i \in DOMAIN par_tasks : SeedRead(i)
    \/ \E i \in DOMAIN par_tasks : SeedWrite(i)
    \/ \E i \in DOMAIN par_tasks : SeedProgress(i)
    \/ \E i \in DOMAIN par_tasks : SeedUnlock(i)
    \/ ParallelReturn


\* count_fixed_polycubes_parallel is not stuck: it is at its entry, a
\* thread can take a seed, a running task can take its next step, or
\* for_each can return
ParCanStep ==
    \/ Parallel("entry")
    \/ /\ Parallel("for_each")
       /\ \E i \in DOMAIN par_tasks :
             /\ par_tasks[i].st = "todo"
             /\ Cardinality({ j \in DOMAIN par_tasks : par_tasks[j].st = "run" })
                   < NumThreads
    \/ /\ Parallel("for_each")
       /\ \E i \in DOMAIN par_tasks :
             /\ par_tasks[i].st = "run"
             /\ \/ par_tasks[i].pc = "lock" /\ counter_lock = 0
                \/ par_tasks[i].pc \in { "read", "write", "unlock" }
                \/ par_tasks[i].pc = "progress" /\ progress_lock = 0
    \/ /\ Parallel("for_each")
       /\ \A i \in DOMAIN par_tasks : par_tasks[i].st = "done"
       /\ counter_lock = 0

\* some thread of the pool can take a step
Runnable == IF call = << >> THEN CanStep ELSE ParCanStep

\* weak fairness of NextFair, with Runnable for ENABLED <<NextFair>>_vars:
\* a run that stays runnable does not stop
FairScheduling == []<>(~Runnable) \/ []<><<TRUE>>_vars

SpecFair == InitFair /\ [][NextFair]_vars /\ FairScheduling

----------------------------------------------------------------------------
(* generate_polycubes(n, true) called twice in the same directory, the     *)
(* second time over an artifact that loads: the caller keeps the first     *)
(* result while the second call runs.                                      *)

InitTwice ==
    /\ Init
    /\ use_cache /\ n >= 3

\* the first call has returned and the directory holds an artifact of size
\* n that loads: the second call starts with the cache as the first one
\* left it, and a log of its own
CallAgain ==
    /\ pc = "done"
    /\ <<"again", n>> \notin cache_log
    /\ cache[n].exists /\ load_from_cache(cache[n])[1]
    /\ pc' = "call"
    /\ size' = n
    /\ cache_log' = { <<"again", n>> }
    /\ base_cubes' = << >>
    /\ tasks' = << >>
    /\ unique_forms' = {}
    /\ lock' = 0
    /\ progress' = 0
    /\ UNCHANGED << n, use_cache, cache, result >>
    /\ UNCHANGED << canonVars, countVars, loaded >>

NextTwice ==
    \/ Next
    \/ CallAgain

SpecTwice == InitTwice /\ [][NextTwice]_vars

\* the proper rotations of the cube, from their definition: the signed
\* permutation matrices of determinant +1
Det(m) ==
      m[1][1] * (m[2][2] * m[3][3] - m[2][3] * m[3][2])
    - m[1][2] * (m[2][1] * m[3][3] - m[2][3] * m[3][1])
    + m[1][3] * (m[2][1] * m[3][2] - m[2][2] * m[3][1])

SignedPermutations ==
    { << << IF perm[1] = 1 THEN sg[1] ELSE 0, IF perm[1] = 2 THEN sg[1] ELSE 0,
            IF perm[1] = 3 THEN sg[1] ELSE 0 >>,
         << IF perm[2] = 1 THEN sg[2] ELSE 0, IF perm[2] = 2 THEN sg[2] ELSE 0,
            IF perm[2] = 3 THEN sg[2] ELSE 0 >>,
         << IF perm[3] = 1 THEN sg[3] ELSE 0, IF perm[3] = 2 THEN sg[3] ELSE 0,
            IF perm[3] = 3 THEN sg[3] ELSE 0 >> >> :
        perm \in { <<1, 2, 3>>, <<1, 3, 2>>, <<2, 1, 3>>,
                   <<2, 3, 1>>, <<3, 1, 2>>, <<3, 2, 1>> },
        sg \in { -1, 1 } \X { -1, 1 } \X { -1, 1 } }

ProperRotations == { m \in SignedPermutations : Det(m) = 1 }

\* a is carried onto b by a proper rotation followed by a translation
RotationEquivalent(a, b) ==
    Let(Range(normalize(b)), LAMBDA target :
       \E m \in ProperRotations :
          Range(normalize(apply_rotation(a, m))) = target)

TypeOK ==
    /\ n \in Nat
    /\ use_cache \in BOOLEAN
    /\ pc \in { "call", "expand", "done" }
    /\ lock \in 0..Len(tasks)

----------------------------------------------------------------------------
(* Properties.                                                             *)

Done == pc = "done"

\* the outermost call ran the parallel expansion itself
Expanded == Done /\ n >= 3 /\ Len(tasks) = Len(base_cubes) /\ size = n
            /\ result = Collected /\ \A i \in DOMAIN tasks : tasks[i].st = "done"

Signatures(polycubes) ==
    { get_canonical_form(polycubes[i]) : i \in 1..Len(polycubes) }

\* shapes as sets of positions
ShapeSet(polycubes) == { Range(polycubes[i]) : i \in 1..Len(polycubes) }

\* C1: for every size n >= 1 of the model, generate_polycubes(n, false)
\* returns as many shapes as get_known_count(n) tabulates (2 for n = 3,
\* 8 for n = 4)
C1_KnownCount ==
    (Done /\ ~use_cache /\ n >= 1) =>
        /\ get_known_count(n)[1]
        /\ Len(result) = get_known_count(n)[2]

C1_Witness == Done /\ ~use_cache /\ n = 5 /\ Len(result) = 29

\* C2: under every interleaving of the tasks the returned collection has at
\* most one shape per canonical signature
C2_OnePerClass ==
    Expanded =>
        \A i, j \in 1..Len(result) :
            get_canonical_form(result[i]) = get_canonical_form(result[j]) => i = j

\* two tasks ran, both kept shapes, and the two base shapes have expansions
\* of one and the same class
C2_Witness ==
    /\ Expanded /\ Len(tasks) >= 2
    /\ \A i \in DOMAIN tasks : Len(tasks[i].local_polycubes) > 0
    /\ \E p \in get_expansion_positions(base_cubes[1]) :
         \E q \in get_expansion_positions(base_cubes[2]) :
            Expansion(base_cubes[1], p).canonical = Expansion(base_cubes[2], q).canonical

\* C3 as stated: for fixed base shapes the set of returned shapes is the
\* same in every run (here: the one of the sequential run)
C3_SameShapes ==
    (Expanded /\ base_cubes = SequentialRun(n - 1)) =>
        ShapeSet(result) = ShapeSet(SequentialRun(n))

\* C3 amended: for fixed base shapes the set of canonical signatures of the
\* returned shapes, and their number, are the same in every run
C3_SameSignatures ==
    (Expanded /\ base_cubes = SequentialRun(n - 1)) =>
        \A sequential \in { SequentialRun(n) } :
            /\ Signatures(result) = Signatures(sequential)
            /\ Len(result) = Len(sequential)

\* a run over the base shapes of the sequential run that two tasks shared
\* and that returns other shapes than the sequential run
C3_Witness ==
    /\ Expanded /\ base_cubes = SequentialRun(n - 1)
    /\ Len(tasks) >= 2
    /\ ShapeSet(result) # ShapeSet(SequentialRun(n))

\* the product of two 3x3 matrices: (a * b) applied to p is a applied to
\* (b applied to p)
Compose(a, b) ==
    [ i \in 1..3 |->
        [ j \in 1..3 |-> a[i][1] * b[1][j] + a[i][2] * b[2][j] + a[i][3] * b[3][j] ]
          \o << >> ] \o << >>

\* C4: rotating a shape by any of the 24 matrices of
\* generate_rotation_matrices leaves get_canonical_hash unchanged, and the
\* product of that matrix with any of the 24, on either side, is again one
\* of the 24
C4_RotationInvariant ==
    op = "rotate" =>
        /\ hash = other_hash
        /\ \E matrices \in { Range(generate_rotation_matrices) } :
              \A b \in matrices :
                 /\ Compose(matrix, b) \in matrices
                 /\ Compose(b, matrix) \in matrices

\* a rotation that changed the positions of a shape of several cells
C4_Witness ==
    /\ op = "rotate" /\ Len(shape) >= 3
    /\ SortPositions(normalize(shape)) # SortPositions(normalize(other))

\* C5: two shapes of the same size have the same signature exactly when a
\* proper rotation followed by a translation carries one onto the other; a
\* mirror image has the signature of the shape only if it is also a rotation
\* of it; the 24 matrices are the 24 signed permutation matrices of
\* determinant +1
C5_SameSignatureIffRotation ==
    /\ Len(shape) = Len(other)
    /\ (hash = other_hash)
          <=> RotationEquivalent(shape, other)
    /\ Len(generate_rotation_matrices) = Cardinality(ProperRotations)
    /\ Range(generate_rotation_matrices) = ProperRotations

\* a chiral shape and its mirror image, with different signatures
C5_Witness ==
    /\ op = "mirror"
    /\ ~RotationEquivalent(shape, other)
    /\ hash # other_hash

\* C6: the canonical representative of a shape is its own canonical
\* representative and has the signature of the shape
C6_Idempotent ==
    op = "canonicalize" =>
        /\ canonical_positions(shape) = shape
        /\ hash = other_hash

\* a shape that is not its own canonical representative was canonicalized
C6_Witness ==
    /\ op = "canonicalize" /\ Len(shape) >= 4
    /\ shape # SortPositions(normalize(other))


\* reachability through steps of one unit along one axis
RECURSIVE ReachableFrom(_, _)
ReachableFrom(seen, positions) ==
    Let({ q \in positions :
            \E p \in seen :
               \/ p = q
               \/ (p[1] - q[1]) * (p[1] - q[1]) + (p[2] - q[2]) * (p[2] - q[2])
                    + (p[3] - q[3]) * (p[3] - q[3]) = 1 },
        LAMBDA next : IF next = seen THEN seen ELSE ReachableFrom(next, positions))

FaceConnected(cubes) ==
    Len(cubes) = 0 \/ ReachableFrom({cubes[1]}, Range(cubes)) = Range(cubes)

\* C7: every shape generate_polycubes(n, false) returns passes
\* is_face_connected, and every position of it is reachable from every other
\* through face-adjacent positions of the shape
C7_Connected ==
    (Done /\ ~use_cache) =>
        \A i \in 1..Len(result) :
            is_face_connected(result[i]) /\ FaceConnected(result[i])

C7_Witness == Done /\ ~use_cache /\ n = 4 /\ Len(result) > 1

\* C8: every shape generate_polycubes(n, false) returns has n positions,
\* pairwise distinct, with minimum 0 on every axis
C8_SizeDistinctNormalized ==
    (Done /\ ~use_cache) =>
        \A i \in 1..Len(result) :
            /\ Len(result[i]) = n
            /\ Cardinality(Range(result[i])) = n
            /\ \A axis \in 1..3 :
                 MinOf({ p[axis] : p \in Range(result[i]) }) = 0

\* a returned shape whose added cell lay below the origin of its base shape
C8_Witness ==
    /\ Done /\ ~use_cache /\ n >= 3
    /\ \E i \in 1..Len(result) : result[i][n] # << 0, 0, 0 >> /\ result[i][1] # << 0, 0, 0 >>

\* C9 as stated: every retained shape, sorted, is the canonical
\* representative of its class
C9_RetainedCanonical ==
    Expanded =>
        \A i \in 1..Len(result) :
            SortPositions(result[i]) = canonical_positions(result[i])

\* C9 amended: every retained shape is a normalized member of its class:
\* sorted, it is one of the 24 rotated, normalized, sorted forms of the
\* canonical representative (not always the smallest), whose signature is
\* in the shared set
C9_RetainedMember ==
    Expanded =>
        \A i \in 1..Len(result) :
            /\ normalize(result[i]) = result[i]
            /\ SortPositions(result[i])
                 \in Range(sorted_rotations(canonical_positions(result[i])))
            /\ get_canonical_form(result[i]) \in unique_forms

C9_Witness ==
    /\ Expanded
    /\ \E i \in 1..Len(result) :
          SortPositions(result[i]) # canonical_positions(result[i])

\* C10: for both values of use_cache and any cache directory, n = 0 returns
\* nothing, n = 1 the unit cube, n = 2 the domino, and the cache directory
\* is neither read nor written
C10_BaseCases ==
    n <= 2 =>
        /\ cache_log = {}
        /\ Done =>
             result = CASE n = 0 -> << >>
                        [] n = 1 -> << << <<0, 0, 0>> >> >>
                        [] n = 2 -> << << <<0, 0, 0>>, <<1, 0, 0>> >> >>

C10_Witness ==
    /\ Done /\ n = 2 /\ use_cache
    /\ cache[2].exists /\ cache[3].exists
    /\ result = << << <<0, 0, 0>>, <<1, 0, 0>> >> >>

\* C11: for every size n >= 1 of the model, count_polycubes(n, false) is the
\* length of the collection generate_polycubes(n, true) returns
C11_CountEqualsGenerated ==
    (Done /\ use_cache /\ n >= 1) =>
        \A threads \in 1..NumThreads :
            count_polycubes(n, FALSE, threads, Len(result), 0, 0) = Len(result)

\* a run with the cache that expanded size 4 itself and saved its result
C11_Witness ==
    /\ Done /\ use_cache /\ n = 4
    /\ <<"save", 4>> \in cache_log
    /\ count_polycubes(n, FALSE, 1, Len(result), 0, 0) = 8

\* C12: for n in 1..12 count_polycubes(n, true) is the tabulated number of
\* free polycubes get_known_count(n), whatever the fixed-count engines return
C12_FreeCountKnown ==
    (returned_count # << >> /\ call.use_symmetry /\ call.n \in 1..12) =>
        /\ returned_count[1] = get_known_count(call.n)[2]
        /\ call.n = 6 => returned_count[1] = 166

\* count_polycubes(12, true) has returned, the engine having returned a value
\* whose 24th part is not the tabulated count
C12_Witness ==
    /\ returned_count # << >> /\ call.use_symmetry /\ call.n = 12
    /\ call.threads = 1 /\ engine.improved \div 24 # 18598427
    /\ returned_count[1] = 18598427

\* C17: for n >= 13 count_polycubes(n, true) is the integer part of the 24th
\* of what count_fixed_polycubes(n) returns, whatever that is: no tabulated
\* value is used
C17_FreeCountBeyondTable ==
    (returned_count # << >> /\ call.use_symmetry /\ call.n >= 13) =>
        /\ returned_count[1] =
              count_fixed_polycubes(call.n, call.threads, engine.generated,
                                    engine.improved, engine.parallel) \div 24
        /\ returned_count[1] =
              (IF call.threads <= 1 THEN engine.improved ELSE engine.parallel) \div 24

\* count_polycubes(13, true) has returned 1 for an engine that counted 47
C17_Witness ==
    /\ returned_count # << >> /\ call.use_symmetry /\ call.n = 13
    /\ call.threads = 2 /\ engine.parallel = 47
    /\ returned_count[1] = 1

\* C13: count_fixed_polycubes_improved(n), n >= 3, returns the number of
\* face-connected sets of n cells distinct up to translation: 15, 86 and 534
\* for n = 3, 4, 5
C13_FixedCount ==
    (returned_count # << >> /\ call.fn = "count_fixed_polycubes_improved"
        /\ call.n >= 3) =>
        /\ returned_count[1] = Cardinality(FixedShapes(call.n))
        /\ call.n = 3 => returned_count[1] = 15
        /\ call.n = 4 => returned_count[1] = 86
        /\ call.n = 5 => returned_count[1] = 534

\* the counter has returned 534 for size 5
C13_Witness ==
    /\ returned_count = << 534 >>
    /\ call.fn = "count_fixed_polycubes_improved" /\ call.n = 5
    /\ Cardinality(visited_hashes) > 534

\* C15: with the cache, whatever the cache directory holds (nothing, a
\* saved artifact, a truncated or an unreadable one) and whatever the
\* outcome of each save, a call for n >= 3 can always go on until it returns,
\* and it returns the signatures of the run without cache; it returns
\* without expanding only what an artifact that loads holds, and after a
\* save, whatever its outcome, it returns the shapes it collected
C15_CacheFailuresHarmless ==
    use_cache =>
        /\ ~Done => CanStep
        /\ (Done /\ n >= 3) =>
              Signatures(result) = Signatures(SequentialRun(n))
        /\ (Done /\ n >= 3 /\ <<"save", n>> \notin cache_log) =>
              /\ load_from_cache(cache[n])[1]
              /\ result = load_from_cache(cache[n])[2]
        /\ (Done /\ n >= 3 /\ <<"save", n>> \in cache_log) =>
              /\ Expanded
              /\ result = Collected

\* a call for size 4 that found an artifact it could not load, expanded the
\* shapes of size 3 and returned although its own save left a broken file
C15_Witness ==
    /\ Done /\ use_cache /\ n = 4
    /\ <<"load", 4>> \in cache_log /\ <<"save", 4>> \in cache_log
    /\ ~load_from_cache(cache[4])[1]
    /\ Len(result) = 8

\* C16: a result saved with success and loaded from the same file comes back
\* with the same set of signatures; and a load, of a whole file or of one
\* cut short, returns the whole result or fails
C16_RoundTrip ==
    loaded # << >> =>
        /\ (<<"ok", n>> \in cache_log /\ <<"cut", n>> \notin cache_log) =>
              /\ loaded[1]
              /\ Signatures(loaded[2]) = Signatures(result)
        /\ loaded[1] =>
              /\ Len(loaded[2]) = Len(result)
              /\ \A i \in 1..Len(result) : Range(loaded[2][i]) = Range(result[i])

\* the eight shapes of size 4 were saved, and loaded again from the whole file
C16_Witness ==
    /\ n = 4 /\ <<"ok", n>> \in cache_log /\ <<"cut", n>> \notin cache_log
    /\ loaded # << >> /\ loaded[1]
    /\ Len(loaded[2]) = 8 /\ Len(result) = 8

\* the task of seed i has added its partial count to the counter
Added(i) ==
    \/ par_tasks[i].st = "done"
    \/ par_tasks[i].st = "run" /\ par_tasks[i].pc \in { "progress", "unlock" }

\* C18: under every interleaving of the tasks the counter holds the sum of
\* the partial counts of the tasks that have added theirs, and the total is
\* returned when every task has: it is the sum of what count_extensions_from
\* returns for each seed
C18_TotalIsSum ==
    (call # << >> /\ call.fn = "count_fixed_polycubes_parallel" /\ call.at = "for_each") =>
        /\ counter = SumFrom([ i \in 1..Len(par_tasks) |->
                                 IF Added(i) THEN par_tasks[i].partial_count ELSE 0 ], 1)
        /\ \A i \in DOMAIN par_tasks :
              par_tasks[i].st # "todo" =>
                 par_tasks[i].partial_count = par_tasks[i].extensions_count
        /\ returned_count # << >> =>
              /\ \A i \in DOMAIN par_tasks : par_tasks[i].st = "done"
              /\ returned_count[1] =
                    SumFrom([ i \in 1..Len(par_tasks) |-> par_tasks[i].extensions_count ], 1)

\* the total of the 15 seeds was returned for size 5, every task having
\* reported its completion
C18_Witness ==
    /\ call # << >> /\ call.fn = "count_fixed_polycubes_parallel"
    /\ call.n = 5 /\ call.show_progress
    /\ returned_count # << >>
    /\ Len(par_tasks) = 15 /\ completed = 15
    /\ returned_count[1] = counter

\* the shapes of `remaining` more cells that the extensions of a shape lead
\* to, each translated to the origin and sorted
RECURSIVE Completions(_, _)
Completions(positions, remaining) ==
    IF remaining = 0 THEN { positions }
    ELSE UNION { Completions(canonicalize_in_place(Append(positions, ext_pos)),
                             remaining - 1) :
                   ext_pos \in get_valid_extensions(positions) }

\* C19: the task of a seed counts every shape of the target size that the
\* seed leads to once: its partial count is the number of these shapes
C19_CountedOnce ==
    (call # << >> /\ call.fn = "count_fixed_polycubes_parallel"
        /\ returned_count # << >> /\ call.n > 2) =>
        \A i \in DOMAIN par_tasks :
            par_tasks[i].partial_count =
                Cardinality(Completions(starting_polycubes[i],
                                        call.n - Len(starting_polycubes[i])))


\* C20: the connectivity check never drops a candidate. In
\* generate_polycubes every expansion of a base shape by a position of its
\* frontier passes is_face_connected; in count_fixed_polycubes_improved no
\* extension that reaches is_connected fails it.
C20_ConnectedByConstruction ==
    /\ \A i \in DOMAIN tasks :
          \A position \in DOMAIN tasks[i].expansions :
             tasks[i].expansions[position].connected
    /\ dropped = {}

\* a task of the generator expands a base shape of four cells: all the
\* positions of its frontier have been checked
C20_Witness ==
    \E i \in DOMAIN tasks :
       /\ tasks[i].st = "run"
       /\ Len(base_cubes[i]) = 4
       /\ DOMAIN tasks[i].expansions = get_expansion_positions(base_cubes[i])
       /\ Cardinality(DOMAIN tasks[i].expansions) >= 16
       /\ \A position \in DOMAIN tasks[i].expansions :
             /\ tasks[i].expansions[position].connected
             /\ is_face_connected(expand(base_cubes[i], position))

\* C21: a run of generate_polycubes in which a candidate fails the
\* connectivity check ends in a fatal error and returns no collection: a
\* run that has returned met no such candidate.
C21_FatalOnDisconnected ==
    (Done /\ Expanded) =>
        \A i \in DOMAIN base_cubes :
           \A position \in get_expansion_positions(base_cubes[i]) :
              is_face_connected(expand(base_cubes[i], position))

\* the adjacency rule, from its definition: two positions are face-adjacent
\* when they differ by one on one axis and agree on the two others
FaceAdjacent(a, b) ==
    LET d(k) == IF a[k] >= b[k] THEN a[k] - b[k] ELSE b[k] - a[k]
    IN  d(1) + d(2) + d(3) = 1

\* the free positions face-adjacent to a cell, searched in the bounding
\* box of the shape widened by one
Frontier(cubes) ==
    LET axis(k) == { cubes[i][k] : i \in 1..Len(cubes) }
        span(k) == (MinOf(axis(k)) - 1)..(MaxOf(axis(k)) + 1)
    IN  { q \in span(1) \X span(2) \X span(3) :
            /\ q \notin Range(cubes)
            /\ \E c \in Range(cubes) : FaceAdjacent(q, c) }

\* C22: get_expansion_positions returns exactly the free positions that are
\* face-adjacent to an occupied one, and get_valid_extensions returns the
\* same set for the same positions.
C22_SameFrontier ==
    shape # << >> =>
        \E frontier \in { Frontier(shape) } :
           /\ get_expansion_positions(shape) = frontier
           /\ get_valid_extensions(shape) = frontier

\* a shape of four cells, rotated so that it has negative coordinates, with
\* a frontier of 16 positions or more
C22_Witness ==
    /\ op = "rotate" /\ Len(shape) = 4
    /\ \E i \in 1..Len(shape) : shape[i][1] < 0
    /\ Cardinality(get_expansion_positions(shape)) >= 16
    /\ get_valid_extensions(shape) = get_expansion_positions(shape)

\* the tasks a parallel iterator of the model has at most: one per seed of
\* three cells
TaskIds == 1..Cardinality(FixedShapes(3))

\* C23: under a scheduler that keeps running, every parallel run
\* completes; each worker of generate_polycubes that waits for the lock on
\* the signature set gets it, and the holder releases it; each seed task of
\* count_fixed_polycubes_parallel that waits for the lock on the counter
\* gets it, the holder takes the progress lock while holding it and then
\* releases both; no state is a deadlock; the holder of the signature-set
\* lock has computed its canonical form before it took the lock.
C23_ParallelRunsComplete ==
    /\ [](call = << >> => (Done \/ CanStep))
    /\ [](call # << >> => (returned_count # << >> \/ ParCanStep))
    /\ [](\A i \in DOMAIN tasks :
             /\ lock = i => tasks[i].pc = "insert" /\ tasks[i].canonical # << >>
             /\ (tasks[i].st = "run" /\ tasks[i].pc \in { "pick", "lock" }) => lock # i)
    /\ [](\A i \in DOMAIN par_tasks :
             /\ progress_lock = i => counter_lock = i
             /\ (par_tasks[i].st = "run" /\ par_tasks[i].pc = "unlock")
                   => /\ counter_lock = i
                      /\ call.show_progress => progress_lock = i)
    /\ <>(Done \/ returned_count # << >>)
    /\ (lock # 0) ~> (lock = 0)
    /\ (counter_lock # 0) ~> (counter_lock = 0 /\ progress_lock = 0)
    /\ (counter_lock # 0 /\ call.show_progress /\ progress_lock = 0)
          ~> (counter_lock # 0 /\ progress_lock = counter_lock)
    /\ \A i \in TaskIds :
          /\ (i \in DOMAIN tasks /\ tasks[i].st = "run" /\ tasks[i].pc = "lock")
                ~> (lock = i)
          /\ (i \in DOMAIN par_tasks /\ par_tasks[i].st = "run"
                /\ par_tasks[i].pc = "lock") ~> (counter_lock = i)

\* two workers of generate_polycubes are at the lock on the signature set,
\* one holding it and one waiting for it
C23_Witness ==
    \E i, j \in DOMAIN tasks :
       /\ i # j
       /\ lock = i /\ tasks[i].pc = "insert"
       /\ tasks[j].st = "run" /\ tasks[j].pc = "lock"

\* C24: when generate_polycubes(n, true), n >= 3, is entered and the
\* artifact of size n exists and loads, the call returns in one step the
\* loaded collection, in the loaded order, without recursing, expanding or
\* writing the cache; when the artifact is the one a first call saved, the
\* second call returns the collection the first one returned.
C24_CacheHitReturnsLoaded ==
    [][ (/\ pc = "call" /\ size = n /\ n >= 3
         /\ use_cache /\ cache[n].exists
         /\ load_from_cache(cache[n])[1])
        => /\ pc' = "done"
           /\ result' = load_from_cache(cache[n])[2]
           /\ cache' = cache
           /\ size' = size /\ base_cubes' = base_cubes /\ tasks' = tasks
           /\ cache_log' = cache_log \cup { <<"exists", n>>, <<"load", n>> }
           /\ (<<"again", n>> \in cache_log /\ cache[n] = save_to_cache(result))
                 => result' = result ]_vars

\* the second call has returned from the artifact the first call wrote (in
\* an order that is not the order of the sequential run) and has neither
\* expanded nor saved
C24_Witness ==
    /\ Done /\ n = 4 /\ use_cache
    /\ cache_log = { <<"again", n>>, <<"exists", n>>, <<"load", n>> }
    /\ tasks = << >>
    /\ cache[n] = save_to_cache(result)
    /\ result # SequentialRun(n)

\* C25: the fixed count does not depend on the thread configuration: what
\* count_fixed_polycubes_parallel(n) returns (the sum of
\* count_extensions_from over the seeds) is what
\* count_fixed_polycubes_improved(n) returned.
C25_SameCount ==
    (call # << >> /\ call.fn = "count_fixed_polycubes_parallel"
        /\ returned_count # << >>) =>
        returned_count[1] = count

\* C26: in generate_polycubes, n >= 3, whenever no worker holds the lock
\* the signatures in unique_forms are those of the shapes the workers have
\* retained so far, one shape for each signature; when the expansion has
\* returned, the set of signatures and the length of the returned
\* collection are those of the sequential run, whatever the interleaving.
C26_SignaturesMatchRetained ==
    /\ (pc = "expand" /\ lock = 0) =>
          \E retained \in { Collected } :
             /\ Len(retained) = Cardinality(unique_forms)
             /\ Signatures(retained) = unique_forms
    /\ Expanded =>
          \E sequential \in { SequentialRun(n) } :
             /\ unique_forms = Signatures(sequential)
             /\ Len(result) = Len(sequential)

\* no worker holds the lock, two workers have each retained a shape and
\* both are still running
C26_Witness ==
    /\ pc = "expand" /\ lock = 0 /\ size = 4
    /\ \E i, j \in DOMAIN tasks :
          /\ i # j
          /\ tasks[i].st = "run" /\ Len(tasks[i].local_polycubes) >= 1
          /\ tasks[j].st = "run" /\ Len(tasks[j].local_polycubes) >= 1
    /\ Cardinality(unique_forms) = Len(Collected)
    /\ Cardinality(unique_forms) >= 3

\* the straight shape of sz cells along an axis, normalized: the shape of
\* sz cells with the largest coordinate
Stick(sz, axis) ==
    [ i \in 1..sz |-> Pos(IF axis = 1 THEN i - 1 ELSE 0,
                          IF axis = 2 THEN i - 1 ELSE 0,
                          IF axis = 3 THEN i - 1 ELSE 0) ]

\* every coordinate of the shape, of its frontier and of its 24 rotated
\* images is where a shape of sz cells has them, and within i8
InRange(cubes, sz) ==
    /\ \A c \in Range(cubes) : \A k \in 1..3 : c[k] \in 0..(sz - 1)
    /\ \A p \in get_expansion_positions(cubes) : \A k \in 1..3 : p[k] \in (-1)..sz
    /\ \A m \in 1..Len(generate_rotation_matrices) :
          \A c \in Range(apply_rotation(cubes, generate_rotation_matrices[m])) :
             \A k \in 1..3 : c[k] \in (1 - sz)..(sz - 1)
    /\ -128 <= 1 - sz /\ sz <= 127

\* C27: every coordinate of every shape generate_polycubes retains for
\* size n lies in 0..n-1, every position of its frontier in -1..n and every
\* coordinate apply_rotation makes of it in -(n-1)..(n-1); the same holds
\* of the straight shapes of 1 to 18 cells, which reach these limits; none
\* of these values leaves -128..127.
C27_CoordinatesInRange ==
    (Done /\ n >= 1) =>
        /\ \A i \in 1..Len(result) : InRange(result[i], n)
        /\ \A sz \in 1..18 : \A axis \in 1..3 : InRange(Stick(sz, axis), sz)

\* generate_polycubes(5, false) has returned its 29 shapes, one of them
\* with a coordinate 4 and a frontier position at 5
C27_Witness ==
    /\ Done /\ n = 5 /\ Len(result) = 29
    /\ \E i \in 1..Len(result) :
          /\ \E c \in Range(result[i]) : \E k \in 1..3 : c[k] = n - 1
          /\ \E p \in get_expansion_positions(result[i]) : \E k \in 1..3 : p[k] = n

\* C28: generate_polycubes(n, false) tests, reads and writes no cache
\* artifact at any depth of the recursion: no step changes the cache or
\* the flag, nothing is ever logged as looked up, loaded or saved, and the
\* result for n >= 3 is the outcome of the expansion, not a loaded file.
C28_NoCacheWithoutFlag ==
    /\ [](~use_cache => cache_log = {})
    /\ []((~use_cache /\ Done /\ n >= 3) => Expanded)
    /\ [][ ~use_cache => (cache' = cache /\ use_cache' = use_cache) ]_vars

\* generate_polycubes(4, false) has returned over a directory that holds a
\* saved artifact for every size, without looking at any, two levels deep
C28_Witness ==
    /\ Done /\ ~use_cache /\ n = 4
    /\ cache_log = {}
    /\ \A sz \in 3..4 : cache[sz] = SavedFile(sz)
    /\ Len(result) = 8 /\ Len(base_cubes) = 2
    /\ base_cubes # SequentialRun(3)

\* the entries a step has pushed to the back of the queue
Pushed == SubSeq(queue', IF Len(queue) = 0 THEN 1 ELSE Len(queue), Len(queue'))

\* C29: count_fixed_polycubes_improved(n), n >= 3, returns; every queued
\* pair (positions, size) has size positions and size <= n (the branch
\* `size > n` is not taken), the sizes do not decrease from the front to
\* the back; the queue changes by a pop at the front and pushes at the
\* back, and every pair pushed is translated to the origin and sorted, and
\* was never pushed before (its hash is new in visited_hashes, which only
\* grows).
C29_BfsTerminatesOrdered ==
    /\ <>(returned_count # << >>)
    /\ [](\A k \in DOMAIN queue :
             /\ Len(queue[k][1]) = queue[k][2]
             /\ queue[k][2] <= call.n
             /\ k > 1 => queue[k - 1][2] <= queue[k][2])
    /\ [][ /\ Len(queue) > 0 => SubSeq(queue', 1, Len(queue) - 1) = Tail(queue)
           /\ \A k \in DOMAIN Pushed :
                 /\ canonicalize_in_place(Pushed[k][1]) = Pushed[k][1]
                 /\ hash_polycube(Pushed[k][1]) \notin visited_hashes
                 /\ \A j \in 1..(k - 1) : Pushed[j][1] # Pushed[k][1]
           /\ visited_hashes' = visited_hashes
                 \cup { hash_polycube(Pushed[k][1]) : k \in DOMAIN Pushed } ]_vars

\* the search for n = 5 holds more than 100 shapes in its queue, of size 4
\* at the front and of size 5 at the back
C29_Witness ==
    /\ call # << >> /\ call.fn = "count_fixed_polycubes_improved" /\ call.n = 5
    /\ Len(queue) > 100
    /\ queue[1][2] = 4 /\ queue[Len(queue)][2] = 5

============================================================================
